---- MODULE Spec2Model ----
(***************************************************************************)
(* Cost Allocation Engine of the LINE report bot (src/app.py).             *)
(*                                                                         *)
(* The state is the content of the PostgreSQL tables created by init_db,   *)
(* the processing date (date.today()) and the reply of the last command.   *)
(* Every command handler runs in one transaction that is committed or      *)
(* rolled back before the handler returns, so one action is one handler.   *)
(***************************************************************************)
EXTENDS Integers, Sequences, FiniteSets, TLC

VARIABLES
    members,              \* table members: set of names
    locations,            \* table locations: set of rows
    monthly_items,        \* table monthly_items: set of rows
    projects,             \* table projects: set of rows
    project_members,      \* table project_members: set of rows
    monthly_settlements,  \* table monthly_settlements: set of rows
    records,              \* table records: set of rows
    next_project_id,      \* next value of uuid_generate_v4() (fresh ids)
    next_settlement_id,   \* next value of the SERIAL monthly_settlements.id
    today,                \* date.today()
    reply,                \* what the last handler returned
    request,              \* the amount typed in the last command (None: no amount)
    request_names,        \* the names typed in the last command, where a
                          \* specification records them (<<>> elsewhere)
    linked_mode,          \* history: ids of the stored projects that case B
                          \* created in its linked branch
    fixed_added,          \* history: for each of those projects, the item and
                          \* the C_fixed that went into its total
    command,              \* history: the record command as typed, where a
                          \* specification records it (NoCommand elsewhere)
    sessions,             \* the handlers that run at the same time, one per
                          \* request thread: position, local variables and
                          \* the writes of the open transaction
    commands              \* the number of commands handled so far

vars == <<members, locations, monthly_items, projects, project_members,
          monthly_settlements, records, next_project_id, next_settlement_id,
          today, reply, request, request_names, linked_mode, fixed_added,
          command, sessions, commands>>

tables == <<members, locations, monthly_items, projects, project_members,
            monthly_settlements, records, next_project_id, next_settlement_id>>

-----------------------------------------------------------------------------
(* Bounds of the model *)

\* commands handled in one behaviour
MaxCommands == 6
\* commands handled in one behaviour that starts from a configured database
MaxRecordCommands == 3
\* record, settle and delete-member commands handled in one behaviour that
\* starts from a configured database
MaxSettleCommands == 3
\* texts handled in one behaviour that starts from a configured database on
\* one of several processing dates
MaxParseCommands == 2
\* commands handled by the request threads in one behaviour
MaxOverlapCommands == 3
\* record, settle and configuration commands handled in one behaviour that
\* starts from a configured database
MaxLedgerCommands == 4

-----------------------------------------------------------------------------
(* Names and input domains *)

COMPANY_NAME == "BOSS"

\* SQL NULL in the two owner columns of records (ids start at 1)
NULL == 0
\* SQL NULL in locations.linked_monthly_item
NoItem == "NULL"
\* manual_cost = None
None == -1

\* no record command typed
NoCommand == [date |-> <<>>, parts |-> <<>>, manual |-> None, std |-> FALSE]

\* the request threads that handle messages at the same time
Sessions == {1, 2}

\* a request thread between two messages: no local variable is set and no
\* transaction is open
IdleSession ==
    [pc |-> "idle", op |-> "", cmd |-> NoCommand, item |-> "", month |-> 0,
     found |-> {}, current_members |-> {}, final_cost |-> 0, deducted |-> 0,
     final_members |-> <<>>, target |-> {}, ins_roster |-> {},
     del_records |-> {}, del_settlements |-> {}, ins_settlement |-> {}]

SalesNames == {"A", "B", "C"}
AllNames == SalesNames \cup {COMPANY_NAME}
LocationNames == {"L1", "L2"}
ItemNames == {"Rent"}

Date(y, m, d) == [y |-> y, m |-> m, d |-> d]

\* the dates on which commands are processed, in order
ProcessingDates == <<Date(2023, 11, 10), Date(2023, 12, 5)>>

\* M/D tokens of record and delete-record commands
DateTokens == {<<11, 5>>, <<1, 15>>, <<2, 30>>}

\* sequences over S of length lo..hi
SeqsOf(S, lo, hi) == UNION {[1..n -> S] : n \in lo..hi}

\* the distinct elements of a sequence
Range(s) == {s[i] : i \in 1..Len(s)}

-----------------------------------------------------------------------------
(* Calendar: datetime.strptime / date.weekday *)

IsLeap(y) == (y % 4 = 0 /\ y % 100 # 0) \/ y % 400 = 0

DaysInMonth(y, m) ==
    IF m = 2 THEN (IF IsLeap(y) THEN 29 ELSE 28)
    ELSE IF m \in {4, 6, 9, 11} THEN 30 ELSE 31

\* Mutant: every month has 31 days
ValidDateAnyDay(y, m, d) == m \in 1..12 /\ d >= 1 /\ d <= 31

\* datetime.strptime(.., '%Y/%m/%d') raises no ValueError
ValidDate(y, m, d) == m \in 1..12 /\ d >= 1 /\ d <= DaysInMonth(y, m)

\* date.weekday(): Monday = 0 .. Sunday = 6
Weekday(dt) ==
    LET t  == <<0, 3, 2, 5, 0, 3, 5, 1, 4, 6, 2, 4>>
        yy == IF dt.m < 3 THEN dt.y - 1 ELSE dt.y
        sun0 == (yy + (yy \div 4) - (yy \div 100) + (yy \div 400) + t[dt.m] + dt.d) % 7
    IN (sun0 + 6) % 7

-----------------------------------------------------------------------------
(* Sums over rows *)

RECURSIVE SumCost(_)
SumCost(rows) ==
    IF rows = {} THEN 0
    ELSE LET r == CHOOSE x \in rows : TRUE
         IN r.cost_paid + SumCost(rows \ {r})

ProjectRecords(pid) == {r \in records : r.project_id = pid}
SettlementRecords(sid) == {r \in records : r.monthly_settlement_id = sid}

-----------------------------------------------------------------------------
(* parse_record_command *)

\* A record command after tokenisation: the M/D token (<<>> when the text does
\* not start with a date), the whitespace separated tokens that follow it, the
\* trailing integer (None when absent) and whether the text ends with the
\* standard keyword.
\* (the three filler words of the source, in ASCII)
FILTER_WORDS == {"ok", "table5", "rack1"}

Filtered(parts) == SelectSeq(parts, LAMBDA p : p \notin FILTER_WORDS)

\* record_year of the M/D token on processing date td
RecordYear(td, input_month) ==
    IF td.m = 12 /\ input_month = 1 THEN td.y + 1
    ELSE IF td.m = 1 /\ input_month = 12 THEN td.y - 1
    ELSE td.y

ParseError(reason) ==
    [error |-> reason, full_date |-> Date(0, 0, 0), member_names |-> <<>>,
     location_name |-> "", manual_cost |-> None, is_standard_mode |-> FALSE]

\* Mutant: only the token before the location is compared with the company
CompanyFirstOnly(member_names) == member_names[1] = COMPANY_NAME

\* if COMPANY_NAME in member_names
CompanyInMembers(member_names) == COMPANY_NAME \in Range(member_names)

parse_record_command(cmd, td) ==
    IF cmd.date = <<>> THEN ParseError("bad_date_format")
    ELSE
      LET input_month == cmd.date[1]
          record_year == RecordYear(td, input_month)
          parts == Filtered(cmd.parts)
      IN IF ~ValidDate(record_year, input_month, cmd.date[2])
           THEN ParseError("no_such_date")
         ELSE IF Len(parts) < 2 THEN ParseError("too_few_tokens")
         ELSE
           LET member_names == <<parts[1]>> \o SubSeq(parts, 3, Len(parts))
           IN IF CompanyInMembers(member_names)
                THEN ParseError("company_in_members")
              ELSE [error |-> "",
                    full_date |-> Date(record_year, input_month, cmd.date[2]),
                    member_names |-> member_names,
                    location_name |-> parts[2],
                    manual_cost |-> cmd.manual,
                    is_standard_mode |-> cmd.std]

-----------------------------------------------------------------------------
(* handle_record_expense *)

\* the reply of a handler: the command, the outcome, the project or settlement
\* id of a success and the deducted amount a settle reply reports
Reply(op, kind, id) == [op |-> op, kind |-> kind, id |-> id, deducted |-> 0]

\* get_location_details: activity cost of the day and the linked item
get_location_details(location_name, full_date) ==
    LET rows == {l \in locations : l.location_name = location_name}
    IN IF rows = {} THEN [found |-> FALSE, cost |-> 0, linked |-> NoItem]
       ELSE LET l == CHOOSE x \in rows : TRUE
                is_weekend == Weekday(full_date) >= 5
            IN [found |-> TRUE,
                cost |-> IF is_weekend THEN l.weekend_cost ELSE l.weekday_cost,
                linked |-> l.linked_monthly_item]

\* Mutant: a typed amount is ignored
ActivityCostOfLocation(manual_cost, location_cost) == location_cost

\* C_activity: the manual amount overrides the location's cost
ActivityCost(manual_cost, location_cost) ==
    IF manual_cost # None THEN manual_cost ELSE location_cost

\* should_link
ShouldLink(linked_item_name, is_standard_mode) ==
    linked_item_name # NoItem /\ ~is_standard_mode

\* Mutant: the fixed cost of the linked item is left out of the total
LinkedTotalActivityOnly(C_activity, C_fixed) == C_activity

\* C_total of a linked project: the activity cost plus the item's fixed cost
LinkedTotal(C_activity, C_fixed) == C_activity + C_fixed

\* Mutant: the division remainder is dropped instead of given to the company
EvenSplitDropsRemainder(total, total_sharers) ==
    [member |-> total \div total_sharers, company |-> total \div total_sharers]

\* Mutant: the total is halved first, as in the standard split
EvenSplitHalvedFirst(total, total_sharers) ==
    LET N == total_sharers - 1
        pool == total \div 2
    IN [member |-> IF N > 0 THEN pool \div N ELSE 0,
        company |-> pool + (total % 2) + (IF N > 0 THEN pool % N ELSE 0)]

\* Mutant: the division remainder is added to the members' share
EvenSplitRemainderToMembers(total, total_sharers) ==
    [member |-> (total \div total_sharers) + (total % total_sharers),
     company |-> total \div total_sharers]

\* even split of total among total_sharers, remainder to the company
EvenSplit(total, total_sharers) ==
    LET C_share_per_person == total \div total_sharers
        remainder == total % total_sharers
    IN [member |-> C_share_per_person, company |-> C_share_per_person + remainder]

\* Mutant: the remainder of the member pool is not added to the company
StandardSplitLosesPoolRemainder(C, N) ==
    [member |-> IF N > 0 THEN (C \div 2) \div N ELSE 0,
     company |-> (C \div 2) + (C % 2),
     pool |-> C \div 2]

\* two-tier split of C among N members and the company
StandardSplit(C, N) ==
    LET C_unit_total == C \div 2
        remainder_total == C % 2
        C_company_stage1 == C_unit_total + remainder_total
        member_cost_pool == C_unit_total
        C_member_individual == IF N > 0 THEN member_cost_pool \div N ELSE 0
        remainder_members == IF N > 0 THEN member_cost_pool % N ELSE 0
    IN [member |-> C_member_individual,
        company |-> C_company_stage1 + remainder_members,
        pool |-> member_cost_pool]

\* the number of the occurrence of s[i] among s[1..i]
Occurrence(s, i) == Cardinality({j \in 1..i : s[j] = s[i]})

\* the rows one command inserts into records for one owner: the company's
\* row, then one row per element of member_list
NewRecords(pid, sid, member_list, member_cost, company_cost) ==
    {[n |-> 1, member_name |-> COMPANY_NAME, project_id |-> pid,
      monthly_settlement_id |-> sid, cost_paid |-> company_cost]}
    \cup {[n |-> Occurrence(member_list, i), member_name |-> member_list[i],
           project_id |-> pid, monthly_settlement_id |-> sid,
           cost_paid |-> member_cost] : i \in 1..Len(member_list)}

\* Mutant: the statements executed before the failure stay in the table
RollbackKeepsWrites(committed, working) == working

\* conn.rollback(): a table after a transaction that failed, given its rows
\* at the start of the transaction and its rows when the statement failed
Rollback(committed, working) == committed

\* the index of the first element of member_list whose INSERT fails
FirstFailure(member_list) ==
    LET bad == {i \in 1..Len(member_list) :
                   \/ member_list[i] \notin members
                   \/ Occurrence(member_list, i) > 1}
    IN CHOOSE x \in bad : \A z \in bad : x <= z

\* INSERT INTO project_members for each member in turn: the first row that
\* breaks the foreign key to members or the primary key ends the transaction
RosterInsertError(member_list) ==
    LET bad == {i \in 1..Len(member_list) :
                   \/ member_list[i] \notin members
                   \/ Occurrence(member_list, i) > 1}
    IN IF bad = {} THEN ""
       ELSE LET i == CHOOSE x \in bad : \A z \in bad : x <= z
            IN IF member_list[i] \notin members THEN "fk_violation"
               ELSE "db_error"

\* Case B of handle_record_expense: no project for (date, location) yet
CreateProject(p) ==
    LET loc == get_location_details(p.location_name, p.full_date)
        C_activity == ActivityCost(p.manual_cost, loc.cost)
        new_members == p.member_names
        pid == next_project_id
        items == {it \in monthly_items : it.item_name = loc.linked}
    IN IF ~loc.found
         THEN /\ reply' = Reply("record", "unknown_location", NULL)
              /\ UNCHANGED tables
       ELSE IF ShouldLink(loc.linked, p.is_standard_mode) /\ items = {}
         THEN /\ reply' = Reply("record", "item_missing", NULL)
              /\ UNCHANGED tables
       ELSE IF RosterInsertError(new_members) # ""
         \* the projects row and the roster rows before the failing one are
         \* written when the INSERT INTO project_members fails
         THEN LET linked == ShouldLink(loc.linked, p.is_standard_mode)
                  total == IF linked
                             THEN LinkedTotal(C_activity,
                                      (CHOOSE it \in items : TRUE).default_cost)
                             ELSE C_activity
                  pool == IF linked THEN total
                          ELSE StandardSplit(total, Len(new_members)).pool
                  written == SubSeq(new_members, 1, FirstFailure(new_members) - 1)
              IN /\ reply' = Reply("record", RosterInsertError(new_members), NULL)
                 /\ projects' = Rollback(projects, projects \cup
                       {[project_id |-> pid, record_date |-> p.full_date,
                         location_name |-> p.location_name,
                         total_fixed_cost |-> total, member_cost_pool |-> pool]})
                 /\ project_members' = Rollback(project_members,
                       project_members \cup
                       {[project_id |-> pid, member_name |-> m] : m \in Range(written)})
                 /\ UNCHANGED <<members, locations, monthly_items,
                                monthly_settlements, records, next_project_id,
                                next_settlement_id>>
       ELSE IF ShouldLink(loc.linked, p.is_standard_mode)
         THEN LET C_fixed == (CHOOSE it \in items : TRUE).default_cost
                  C_total == LinkedTotal(C_activity, C_fixed)
                  sp == EvenSplit(C_total, Len(new_members) + 1)
              IN /\ projects' = projects \cup
                       {[project_id |-> pid, record_date |-> p.full_date,
                         location_name |-> p.location_name,
                         total_fixed_cost |-> C_total, member_cost_pool |-> C_total]}
                 /\ project_members' = project_members \cup
                       {[project_id |-> pid, member_name |-> m] : m \in Range(new_members)}
                 /\ records' = records \cup
                       NewRecords(pid, NULL, new_members, sp.member, sp.company)
                 /\ next_project_id' = next_project_id + 1
                 /\ reply' = Reply("record", "created_linked", pid)
                 /\ UNCHANGED <<members, locations, monthly_items,
                                monthly_settlements, next_settlement_id>>
       ELSE LET C == C_activity
                sp == StandardSplit(C, Len(new_members))
            IN /\ projects' = projects \cup
                     {[project_id |-> pid, record_date |-> p.full_date,
                       location_name |-> p.location_name,
                       total_fixed_cost |-> C, member_cost_pool |-> sp.pool]}
               /\ project_members' = project_members \cup
                     {[project_id |-> pid, member_name |-> m] : m \in Range(new_members)}
               /\ records' = records \cup
                     NewRecords(pid, NULL, new_members, sp.member, sp.company)
               /\ next_project_id' = next_project_id + 1
               /\ reply' = Reply("record", "created_standard", pid)
               /\ UNCHANGED <<members, locations, monthly_items,
                              monthly_settlements, next_settlement_id>>

\* sorted(list(S)) for a set S of sales names
NameOrder == <<"A", "B", "C">>
Sorted(S) == SelectSeq(NameOrder, LAMBDA x : x \in S)

\* members_to_add = [m for m in new_members if m not in current_members]
MembersToAdd(new_members, current_members) ==
    SelectSeq(new_members, LAMBDA m : m \notin current_members)

\* Mutant: the total is taken again from the location's configured cost
MergedProjectRecosted(pr, p) ==
    [pr EXCEPT !.total_fixed_cost =
        get_location_details(pr.location_name, pr.record_date).cost]

\* Mutant: a typed amount replaces the stored total
MergedProjectWithOverride(pr, p) ==
    IF p.manual_cost # None THEN [pr EXCEPT !.total_fixed_cost = p.manual_cost]
    ELSE pr

\* the projects row of an existing project after a record command: no
\* statement of case A writes to projects
MergedProject(pr, p) == pr

\* Mutant: the command goes on to rewrite the Records
AlreadyOnRosterIgnored(members_to_add, new_members) == FALSE

\* if not members_to_add and len(new_members) > 0: nothing to add
AlreadyOnRoster(members_to_add, new_members) ==
    members_to_add = <<>> /\ Len(new_members) > 0

\* Mutant: the DELETE has no WHERE clause
RecordsAfterRewriteDeleteAll(project_id) == {}

\* records after DELETE FROM records WHERE project_id = %s
RecordsAfterRewriteDelete(project_id) == records \ ProjectRecords(project_id)

\* Case A of handle_record_expense: the project pr exists
MergeMembers(p, pr) ==
    LET project_id == pr.project_id
        total_fixed_cost == pr.total_fixed_cost
        new_members == p.member_names
        current_members == {pm.member_name : pm \in
                              {x \in project_members : x.project_id = project_id}}
        members_to_add == MembersToAdd(new_members, current_members)
        all_business_members == Sorted(current_members \cup Range(new_members))
        sp == EvenSplit(total_fixed_cost, Len(all_business_members) + 1)
    IN IF AlreadyOnRoster(members_to_add, new_members)
         THEN /\ reply' = Reply("record", "already", project_id)
              /\ UNCHANGED tables
       ELSE IF \E m \in Range(members_to_add) : m \notin members
         \* the roster rows before the failing one are written
         THEN LET first == CHOOSE i \in 1..Len(members_to_add) :
                              /\ members_to_add[i] \notin members
                              /\ \A j \in 1..(i - 1) : members_to_add[j] \in members
                  written == SubSeq(members_to_add, 1, first - 1)
              IN /\ reply' = Reply("record", "fk_violation", NULL)
                 /\ project_members' = Rollback(project_members,
                       project_members \cup
                       {[project_id |-> project_id, member_name |-> m] :
                           m \in Range(written)})
                 /\ UNCHANGED <<members, locations, monthly_items, projects,
                                monthly_settlements, records, next_project_id,
                                next_settlement_id>>
       ELSE /\ project_members' = project_members \cup
                  {[project_id |-> project_id, member_name |-> m] :
                      m \in Range(members_to_add)}
            /\ records' = RecordsAfterRewriteDelete(project_id) \cup
                  NewRecords(project_id, NULL, all_business_members,
                             sp.member, sp.company)
            /\ projects' = (projects \ {pr}) \cup {MergedProject(pr, p)}
            /\ reply' = Reply("record", "merged", project_id)
            /\ UNCHANGED <<members, locations, monthly_items,
                           monthly_settlements, next_project_id, next_settlement_id>>

\* the record commands with the given M/D tokens, member tokens, at most
\* max_rest members after the location, and the given trailing amounts
RecordCommands(date_tokens, member_tokens, max_rest, manual_costs) ==
    [date : date_tokens,
     parts : {<<m, l>> \o rest : m \in member_tokens, l \in LocationNames,
                                 rest \in SeqsOf(member_tokens, 0, max_rest)},
     manual : manual_costs,
     std : BOOLEAN]

\* Mutant: the lookup compares record_date with the processing date
FindProjectToday(full_date, location_name) ==
    {pr \in projects : pr.record_date = today
                        /\ pr.location_name = location_name}

\* SELECT ... FROM projects WHERE record_date = %s AND location_name = %s
FindProject(full_date, location_name) ==
    {pr \in projects : pr.record_date = full_date
                        /\ pr.location_name = location_name}

RecordExpense(cmd) ==
    LET p == parse_record_command(cmd, today)
        found == FindProject(p.full_date, p.location_name)
    IN /\ UNCHANGED today
       /\ IF p.error # ""
            THEN /\ reply' = Reply("record", p.error, NULL)
                 /\ UNCHANGED tables
          ELSE IF found = {} THEN CreateProject(p)
          ELSE \E pr \in found : MergeMembers(p, pr)

-----------------------------------------------------------------------------
(* handle_management_add, handle_management_add_monthly_item *)

\* INSERT ... ON CONFLICT (key) DO UPDATE: the row replaces the one of its key
UpsertLocation(row) ==
    {l \in locations : l.location_name # row.location_name} \cup {row}

UpsertItem(row) ==
    {it \in monthly_items : it.item_name # row.item_name} \cup {row}

AddMember(member_name) ==
    /\ members' = members \cup {member_name}
    /\ reply' = Reply("add_member",
                       IF member_name \in members THEN "exists" ELSE "ok", NULL)
    /\ UNCHANGED <<locations, monthly_items, projects, project_members,
                   monthly_settlements, records, next_project_id,
                   next_settlement_id, today>>

\* the single rate and the dual rate form: the link is reset to NULL
AddLocation(loc_name, weekday_cost_val, weekend_cost_val) ==
    /\ locations' = UpsertLocation(
           [location_name |-> loc_name, weekday_cost |-> weekday_cost_val,
            weekend_cost |-> weekend_cost_val, linked_monthly_item |-> NoItem])
    /\ reply' = Reply("add_location", "ok", NULL)
    /\ UNCHANGED <<members, monthly_items, projects, project_members,
                   monthly_settlements, records, next_project_id,
                   next_settlement_id, today>>

\* the linked form
AddLinkedLocation(loc_name, cost_val, linked_item) ==
    /\ UNCHANGED <<members, monthly_items, projects, project_members,
                   monthly_settlements, records, next_project_id,
                   next_settlement_id, today>>
    /\ IF \A it \in monthly_items : it.item_name # linked_item
         THEN /\ reply' = Reply("add_location", "unknown_item", NULL)
              /\ UNCHANGED locations
         ELSE /\ locations' = UpsertLocation(
                    [location_name |-> loc_name, weekday_cost |-> cost_val,
                     weekend_cost |-> cost_val, linked_monthly_item |-> linked_item])
              /\ reply' = Reply("add_location", "ok", NULL)

\* [n for n in member_names if n != COMPANY_NAME]
WithoutCompany(names) == SelectSeq(names, LAMBDA n : n # COMPANY_NAME)

AddMonthlyItem(item_name, default_cost, names) ==
    LET member_names == WithoutCompany(names)
    IN /\ UNCHANGED <<members, locations, projects, project_members,
                      monthly_settlements, records, next_project_id,
                      next_settlement_id, today>>
       /\ IF \E n \in Range(member_names) : n \notin members
            THEN /\ reply' = Reply("add_item", "unknown_member", NULL)
                 /\ UNCHANGED monthly_items
            ELSE /\ monthly_items' = UpsertItem(
                       [item_name |-> item_name, default_cost |-> default_cost,
                        default_members |-> member_names])
                 /\ reply' = Reply("add_item", "ok", NULL)

-----------------------------------------------------------------------------
(* handle_settle_monthly_cost *)

\* current_year of a settle or delete-settlement command for target_month
SettlementYear(td, target_month) ==
    IF target_month < td.m /\ td.m = 12 THEN td.y + 1 ELSE td.y

\* linked_activity_days: the projects counted as already paid
LinkedLocations(item_name) ==
    {l.location_name : l \in {x \in locations : x.linked_monthly_item = item_name}}

LinkedActivityDays(item_name, target_month) ==
    LET linked_locations == LinkedLocations(item_name)
    IN Cardinality({pr \in projects :
                      /\ pr.location_name \in linked_locations
                      /\ pr.record_date.m = target_month
                      /\ pr.member_cost_pool = pr.total_fixed_cost})

\* Mutant: the item's cost is deducted once, however many projects count
DeductedOnce(linked_activity_days, default_cost) ==
    IF linked_activity_days > 0 THEN default_cost ELSE 0

\* total_fixed_cost_deducted
Deducted(linked_activity_days, default_cost) ==
    IF linked_activity_days > 0 THEN linked_activity_days * default_cost ELSE 0

\* final_members
FinalMembers(specified_members, default_members) ==
    IF specified_members # <<>> THEN WithoutCompany(specified_members)
    ELSE default_members

\* Mutant: the deduction is not subtracted
FinalCostToSettleNoDeduction(cost_amount, total_fixed_cost_deducted) ==
    cost_amount

\* final_cost_to_settle
FinalCostToSettle(cost_amount, total_fixed_cost_deducted) ==
    cost_amount - total_fixed_cost_deducted

\* Mutant: the names of the override are not looked up
UnknownMemberNotChecked(specified_members) == FALSE

\* a name of the override that SELECT name FROM members does not find
UnknownMember(specified_members) ==
    \E n \in Range(specified_members) : n \notin members

\* Mutant: the Records of the deleted settlement stay
RecordsAfterSettlementDeleteKept(old_ids) == records

\* records after DELETE FROM monthly_settlements of old_ids (ON DELETE CASCADE)
RecordsAfterSettlementDelete(old_ids) ==
    {r \in records : r.monthly_settlement_id \notin old_ids}

\* Mutant: a plain INSERT, as into projects: no DELETE and no UNIQUE key
ReplaceSettlementInsertOnly(old, row) ==
    [ok |-> TRUE, rows |-> monthly_settlements \cup {row}]

\* DELETE the old settlement of the key, then INSERT the new row under
\* UNIQUE (settlement_date, item_name): the table after both statements
ReplaceSettlement(old, row) ==
    LET kept == monthly_settlements \ old
    IN [ok |-> \A st \in kept : ~(st.settlement_date = row.settlement_date
                                    /\ st.item_name = row.item_name),
        rows |-> kept \cup {row}]

SettleReply(kind, id, deducted) ==
    [op |-> "settle", kind |-> kind, id |-> id, deducted |-> deducted]

SettleMonthlyCost(target_month, item_name, cost_amount, specified_members) ==
    LET items == {it \in monthly_items : it.item_name = item_name}
        item == CHOOSE it \in items : TRUE
        final_members == FinalMembers(specified_members, item.default_members)
        settlement_date == Date(SettlementYear(today, target_month), target_month, 1)
        total_fixed_cost_deducted ==
            Deducted(LinkedActivityDays(item_name, target_month), item.default_cost)
        final_cost_to_settle == FinalCostToSettle(cost_amount, total_fixed_cost_deducted)
        sp == EvenSplit(final_cost_to_settle, Len(final_members) + 1)
        old == {st \in monthly_settlements :
                   st.settlement_date = settlement_date /\ st.item_name = item_name}
        old_ids == {st.id : st \in old}
        sid == next_settlement_id
        replaced == ReplaceSettlement(old,
                        [id |-> sid, item_name |-> item_name,
                         settlement_date |-> settlement_date,
                         cost_amount |-> final_cost_to_settle,
                         actual_members |-> final_members])
    IN /\ UNCHANGED <<members, locations, monthly_items, projects,
                      project_members, next_project_id, today>>
       /\ IF items = {}
            THEN /\ reply' = SettleReply("unknown_item", NULL, 0)
                 /\ UNCHANGED <<monthly_settlements, records, next_settlement_id>>
          ELSE IF UnknownMember(specified_members)
            THEN /\ reply' = SettleReply("unknown_member", NULL, 0)
                 /\ UNCHANGED <<monthly_settlements, records, next_settlement_id>>
          ELSE IF final_members = <<>>
            THEN /\ reply' = SettleReply("empty_roster", NULL, 0)
                 /\ UNCHANGED <<monthly_settlements, records, next_settlement_id>>
          ELSE IF target_month \notin 1..12
            THEN /\ reply' = SettleReply("db_error", NULL, 0)
                 /\ UNCHANGED <<monthly_settlements, records, next_settlement_id>>
          ELSE IF final_cost_to_settle < 0
            THEN /\ reply' = SettleReply("over_collected", NULL,
                                         total_fixed_cost_deducted)
                 /\ UNCHANGED <<monthly_settlements, records, next_settlement_id>>
          ELSE IF final_cost_to_settle = 0
            \* the reply reads linked_activity_days, unbound without a linked location
            THEN /\ reply' = SettleReply(IF LinkedLocations(item_name) = {}
                                           THEN "db_error" ELSE "absorbed",
                                         NULL,
                                         total_fixed_cost_deducted)
                 /\ UNCHANGED <<monthly_settlements, records, next_settlement_id>>
          \* nextval() of the SERIAL id is not undone by a rollback
          ELSE /\ next_settlement_id' = next_settlement_id + 1
               /\ IF ~replaced.ok
                    \* the INSERT INTO monthly_settlements fails after the DELETE
                    THEN /\ reply' = SettleReply("db_error", NULL,
                                                 total_fixed_cost_deducted)
                         /\ monthly_settlements' =
                               Rollback(monthly_settlements, monthly_settlements \ old)
                         /\ records' =
                               Rollback(records, RecordsAfterSettlementDelete(old_ids))
                    ELSE IF \E n \in Range(final_members) : n \notin members
                    \* an INSERT INTO records fails: the settlement is replaced
                    \* and the Records before the failing one are written
                    THEN LET first == CHOOSE i \in 1..Len(final_members) :
                                         /\ final_members[i] \notin members
                                         /\ \A j \in 1..(i - 1) :
                                               final_members[j] \in members
                             written == SubSeq(final_members, 1, first - 1)
                         IN /\ reply' = SettleReply("fk_violation", NULL,
                                                    total_fixed_cost_deducted)
                            /\ monthly_settlements' =
                                  Rollback(monthly_settlements, replaced.rows)
                            /\ records' = Rollback(records,
                                  RecordsAfterSettlementDelete(old_ids)
                                  \cup NewRecords(NULL, sid, written,
                                                  sp.member, sp.company))
                    ELSE /\ monthly_settlements' = replaced.rows
                         /\ records' =
                               RecordsAfterSettlementDelete(old_ids)
                               \cup NewRecords(NULL, sid, final_members,
                                               sp.member, sp.company)
                         \* the reply says whether a settlement was replaced
                         /\ reply' = SettleReply(IF old = {} THEN "settled"
                                                 ELSE "resettled", sid,
                                                 total_fixed_cost_deducted)

-----------------------------------------------------------------------------
(* handle_management_delete *)

\* Mutant: ON DELETE SET NULL instead of ON DELETE CASCADE
RecordsAfterProjectDeleteSetNull(project_id) ==
    {IF r.project_id = project_id THEN [r EXCEPT !.project_id = NULL] ELSE r :
     r \in records}

\* records after DELETE FROM projects of project_id (ON DELETE CASCADE)
RecordsAfterProjectDelete(project_id) == records \ ProjectRecords(project_id)

DeleteProject(date_token, location_name) ==
    LET p == parse_record_command(
                 [date |-> date_token, parts |-> <<"tester", location_name>>,
                  manual |-> None, std |-> FALSE], today)
        found == FindProject(p.full_date, location_name)
    IN /\ UNCHANGED <<members, locations, monthly_items, monthly_settlements,
                      next_project_id, next_settlement_id, today>>
       /\ IF p.error # ""
            THEN /\ reply' = Reply("delete_project", "invalid", NULL)
                 /\ UNCHANGED <<projects, project_members, records>>
          ELSE IF found = {}
            THEN /\ reply' = Reply("delete_project", "not_found", NULL)
                 /\ UNCHANGED <<projects, project_members, records>>
          ELSE \E pr \in found :
                 /\ projects' = projects \ {pr}
                 \* ON DELETE CASCADE
                 /\ project_members' =
                       {pm \in project_members : pm.project_id # pr.project_id}
                 /\ records' = RecordsAfterProjectDelete(pr.project_id)
                 /\ reply' = Reply("delete_project", "ok", pr.project_id)

\* what the handler replies when a DELETE breaks an ON DELETE RESTRICT key:
\* the server reports it as restrict_violation or as foreign_key_violation
RestrictReplies == {"still_referenced", "db_error"}

\* monthly_settlements.item_name REFERENCES monthly_items ON DELETE RESTRICT
ItemReferenced(item_name) ==
    \E st \in monthly_settlements : st.item_name = item_name

DeleteMonthlyItem(item_name) ==
    /\ UNCHANGED <<members, projects, project_members, monthly_settlements,
                   records, next_project_id, next_settlement_id, today>>
    /\ IF \A it \in monthly_items : it.item_name # item_name
         THEN /\ reply' = Reply("delete_item", "not_found", NULL)
              /\ UNCHANGED <<monthly_items, locations>>
       ELSE IF ItemReferenced(item_name)
         THEN /\ \E k \in RestrictReplies : reply' = Reply("delete_item", k, NULL)
              /\ UNCHANGED <<monthly_items, locations>>
       ELSE /\ monthly_items' = {it \in monthly_items : it.item_name # item_name}
            \* ON DELETE SET NULL
            /\ locations' =
                  {IF l.linked_monthly_item = item_name
                     THEN [l EXCEPT !.linked_monthly_item = NoItem] ELSE l :
                   l \in locations}
            /\ reply' = Reply("delete_item", "ok", NULL)

DeleteSettlement(target_month, item_name) ==
    LET settlement_date == Date(SettlementYear(today, target_month), target_month, 1)
        old == {st \in monthly_settlements :
                   st.settlement_date = settlement_date /\ st.item_name = item_name}
        old_ids == {st.id : st \in old}
    IN /\ UNCHANGED <<members, locations, monthly_items, projects,
                      project_members, next_project_id, next_settlement_id, today>>
       /\ IF target_month \notin 1..12
            THEN /\ reply' = Reply("delete_settlement", "invalid", NULL)
                 /\ UNCHANGED <<monthly_settlements, records>>
          ELSE IF old = {}
            THEN /\ reply' = Reply("delete_settlement", "not_found", NULL)
                 /\ UNCHANGED <<monthly_settlements, records>>
          ELSE /\ monthly_settlements' = monthly_settlements \ old
               /\ records' = RecordsAfterSettlementDelete(old_ids)
               /\ reply' = Reply("delete_settlement", "ok", NULL)

\* Mutant: the company can be deleted like any member
SystemMemberNotProtected(member_name) == FALSE

\* the member the delete command refuses to delete
SystemMember(member_name) == member_name = COMPANY_NAME

\* Mutant: the Records of a deleted member stay in the table
RecordsAfterMemberDeleteKept(member_name) == records

\* records.member_name REFERENCES members(name) ON DELETE CASCADE
RecordsAfterMemberDelete(member_name) ==
    {r \in records : r.member_name # member_name}

DeleteMember(member_name) ==
    /\ UNCHANGED <<locations, monthly_items, projects, monthly_settlements,
                   next_project_id, next_settlement_id, today>>
    /\ IF SystemMember(member_name)
         THEN /\ reply' = Reply("delete_member", "company", NULL)
              /\ UNCHANGED <<members, project_members, records>>
       ELSE IF member_name \notin members
         THEN /\ reply' = Reply("delete_member", "not_found", NULL)
              /\ UNCHANGED <<members, project_members, records>>
       ELSE /\ members' = members \ {member_name}
            \* ON DELETE CASCADE
            /\ project_members' =
                  {pm \in project_members : pm.member_name # member_name}
            /\ records' = RecordsAfterMemberDelete(member_name)
            /\ reply' = Reply("delete_member", "ok", NULL)

\* Mutant: the foreign key of projects does not restrict the DELETE
LocationReferencedNotRestricted(loc_name) == FALSE

\* projects.location_name REFERENCES locations ON DELETE RESTRICT
LocationReferenced(loc_name) ==
    \E pr \in projects : pr.location_name = loc_name

DeleteLocation(loc_name) ==
    /\ UNCHANGED <<members, monthly_items, projects, project_members,
                   monthly_settlements, records, next_project_id,
                   next_settlement_id, today>>
    /\ IF \A l \in locations : l.location_name # loc_name
         THEN /\ reply' = Reply("delete_location", "not_found", NULL)
              /\ UNCHANGED locations
       ELSE IF LocationReferenced(loc_name)
         THEN /\ \E k \in RestrictReplies : reply' = Reply("delete_location", k, NULL)
              /\ UNCHANGED locations
       ELSE /\ locations' = {l \in locations : l.location_name # loc_name}
            /\ reply' = Reply("delete_location", "ok", NULL)

-----------------------------------------------------------------------------
(* The processing date moves on *)

AdvanceDay ==
    /\ UNCHANGED <<commands, linked_mode, fixed_added, command, sessions>>
    /\ request' = None
    /\ request_names' = <<>>
    /\ \E i \in 1..(Len(ProcessingDates) - 1) :
          /\ today = ProcessingDates[i]
          /\ today' = ProcessingDates[i + 1]
    /\ reply' = Reply("none", "", NULL)
    /\ UNCHANGED tables

-----------------------------------------------------------------------------
(* The specification *)

\* the state after init_db on an empty database
Init ==
    /\ members = {COMPANY_NAME}
    /\ locations = {}
    /\ monthly_items = {}
    /\ projects = {}
    /\ project_members = {}
    /\ monthly_settlements = {}
    /\ records = {}
    /\ next_project_id = 1
    /\ next_settlement_id = 1
    /\ today = ProcessingDates[1]
    /\ reply = Reply("none", "", NULL)
    /\ request = None
    /\ request_names = <<>>
    /\ linked_mode = {}
    /\ fixed_added = {}
    /\ command = NoCommand
    /\ sessions = [t \in Sessions |-> IdleSession]
    /\ commands = 0

\* one more command is handled, of at most limit; cost is the amount and
\* names are the names typed in it
HandleNames(limit, cost, names) ==
    /\ commands < limit
    /\ commands' = commands + 1
    /\ request' = cost
    /\ request_names' = names
    /\ UNCHANGED <<command, sessions>>

HandleUpTo(limit, cost) == HandleNames(limit, cost, <<>>)

\* linked_item_name and C_fixed of the project the linked branch of case B
\* has just created: the item its location is linked to and that item's
\* default_cost, as the handler read them
FixedCostAdded(project_id, stored) ==
    LET pr == CHOOSE x \in stored : x.project_id = project_id
        l == CHOOSE x \in locations : x.location_name = pr.location_name
        it == CHOOSE x \in monthly_items : x.item_name = l.linked_monthly_item
    IN [project_id |-> project_id, item_name |-> it.item_name,
        C_fixed |-> it.default_cost]

\* the history of the split modes, kept after the handler has replied
TrackLinkedMode ==
    /\ linked_mode' =
          (IF reply'.op = "record" /\ reply'.kind = "created_linked"
             THEN linked_mode \cup {reply'.id} ELSE linked_mode)
          \cap {pr.project_id : pr \in projects'}
    /\ fixed_added' =
          {f \in (IF reply'.op = "record" /\ reply'.kind = "created_linked"
                    THEN fixed_added \cup {FixedCostAdded(reply'.id, projects')}
                    ELSE fixed_added) :
              \E pr \in projects' : pr.project_id = f.project_id}

Handle(cost) == HandleUpTo(MaxCommands, cost)

\* Inputs of the commands
LocationRates == {<<1000, 7>>}
LinkedCosts == {1000}
ItemCosts == {300}
ItemRosters == {<<"A">>, <<"A", "B">>}
SettleMonths == {11}
SettleAmounts == {0, 300, 1000}
SettleRosters == {<<>>, <<"B">>}
SmallNames == {"A", "B"}
SmallRecordCommands == RecordCommands({<<11, 5>>}, SmallNames, 1, {None, 9})

Next ==
    \/ \E n \in SmallNames : Handle(None) /\ AddMember(n) /\ TrackLinkedMode
    \/ \E l \in LocationNames, r \in LocationRates : Handle(None) /\ AddLocation(l, r[1], r[2])
             /\ TrackLinkedMode
    \/ \E l \in LocationNames, c \in LinkedCosts, it \in ItemNames :
          Handle(None) /\ AddLinkedLocation(l, c, it) /\ TrackLinkedMode
    \/ \E it \in ItemNames, c \in ItemCosts, ns \in ItemRosters :
          Handle(None) /\ AddMonthlyItem(it, c, ns) /\ TrackLinkedMode
    \/ \E cmd \in SmallRecordCommands :
          Handle(cmd.manual) /\ RecordExpense(cmd) /\ TrackLinkedMode
    \/ \E m \in SettleMonths, it \in ItemNames, c \in SettleAmounts,
          ns \in SettleRosters :
          Handle(c) /\ SettleMonthlyCost(m, it, c, ns) /\ TrackLinkedMode
    \/ \E d \in {<<11, 5>>}, l \in LocationNames :
          Handle(None) /\ DeleteProject(d, l) /\ TrackLinkedMode
    \/ \E it \in ItemNames : Handle(None) /\ DeleteMonthlyItem(it) /\ TrackLinkedMode
    \/ \E m \in SettleMonths, it \in ItemNames :
          Handle(None) /\ DeleteSettlement(m, it) /\ TrackLinkedMode
    \/ \E n \in SmallNames \cup {COMPANY_NAME} :
          Handle(None) /\ DeleteMember(n) /\ TrackLinkedMode
    \/ \E l \in LocationNames : Handle(None) /\ DeleteLocation(l) /\ TrackLinkedMode
    \/ AdvanceDay

Spec == Init /\ [][Next]_vars

-----------------------------------------------------------------------------
(* Record commands on a configured database *)

\* a database the admin commands have configured: three sales members, a
\* standard location with a weekday and a weekend rate, a monthly item and a
\* location linked to it
InitRecord ==
    /\ members = AllNames
    /\ locations =
          {[location_name |-> "L1", weekday_cost |-> 1000, weekend_cost |-> 7,
            linked_monthly_item |-> NoItem],
           [location_name |-> "L2", weekday_cost |-> 1000, weekend_cost |-> 1000,
            linked_monthly_item |-> "Rent"]}
    /\ monthly_items =
          {[item_name |-> "Rent", default_cost |-> 300,
            default_members |-> <<"A", "B">>]}
    /\ projects = {}
    /\ project_members = {}
    /\ monthly_settlements = {}
    /\ records = {}
    /\ next_project_id = 1
    /\ next_settlement_id = 1
    /\ today = ProcessingDates[1]
    /\ reply = Reply("none", "", NULL)
    /\ request = None
    /\ request_names = <<>>
    /\ linked_mode = {}
    /\ fixed_added = {}
    /\ command = NoCommand
    /\ sessions = [t \in Sessions |-> IdleSession]
    /\ commands = 0

\* 11/6/2023 is a Monday
RichRecordCommands == RecordCommands({<<11, 6>>}, SalesNames, 2, {None, 9})

NextRecord ==
    \/ \E cmd \in RichRecordCommands :
          HandleUpTo(MaxRecordCommands, cmd.manual) /\ RecordExpense(cmd)
             /\ TrackLinkedMode
    \/ \E n \in SalesNames :
          HandleUpTo(MaxRecordCommands, None) /\ DeleteMember(n) /\ TrackLinkedMode
    \/ \E l \in LocationNames :
          HandleUpTo(MaxRecordCommands, None) /\ DeleteProject(<<11, 6>>, l)
             /\ TrackLinkedMode

SpecRecord == InitRecord /\ [][NextRecord]_vars

-----------------------------------------------------------------------------
(* Record and settle commands on a configured database *)

\* the member tokens of a record command as typed
TypedNames(cmd) ==
    IF Len(cmd.parts) < 2 THEN cmd.parts
    ELSE <<cmd.parts[1]>> \o SubSeq(cmd.parts, 3, Len(cmd.parts))

\* record commands for two days of January at the standard and at the linked
\* location, with and without the amount 0 and the standard keyword
JanuaryRecordCommands ==
    [date : {<<1, 15>>, <<1, 16>>},
     parts : {<<"A", "L2">>, <<"B", "L2">>, <<"A", "L1", "B">>},
     manual : {None, 0},
     std : BOOLEAN]

\* record commands the handler rejects: a day that does not exist, no
\* location, the company among the members, a location that is not configured
RejectedRecordCommands ==
    {[date |-> d, parts |-> ps, manual |-> None, std |-> FALSE] :
        <<d, ps>> \in {<< <<2, 30>>, <<"A", "L2">> >>,
                       << <<1, 15>>, <<"A">> >>,
                       << <<1, 15>>, <<"A", "L2", COMPANY_NAME>> >>,
                       << <<1, 15>>, <<"A", "L3">> >>} }

\* settle commands for January: the configured item with its default roster,
\* an override and an override of the company alone, and an unknown item
JanuarySettleCommands ==
    [item : {"Rent"}, amount : {300, 1000},
     names : {<<>>, <<"B">>, <<COMPANY_NAME>>}]
    \cup {[item |-> "Gas", amount |-> 1000, names |-> <<>>]}

NextSettle ==
    \/ \E cmd \in JanuaryRecordCommands \cup RejectedRecordCommands :
          /\ HandleNames(MaxSettleCommands, cmd.manual, TypedNames(cmd))
          /\ RecordExpense(cmd)
          /\ TrackLinkedMode
    \/ \E c \in JanuarySettleCommands :
          /\ HandleNames(MaxSettleCommands, c.amount, c.names)
          /\ SettleMonthlyCost(1, c.item, c.amount, c.names)
          /\ TrackLinkedMode
    \/ HandleUpTo(MaxSettleCommands, None) /\ DeleteMember("B") /\ TrackLinkedMode
    \/ AdvanceDay

SpecSettle == InitRecord /\ [][NextSettle]_vars

-----------------------------------------------------------------------------
(* Texts that carry a record command, on several processing dates *)

\* handle_message for a text that starts with no management keyword: the
\* text is a record command when it holds an M/D(w) token and something
\* after it, and is not recognised otherwise
\* Mutant: every text is handed to handle_record_expense
record_match_any(cmd) == TRUE

\* re.search of the M/D(w) token, white space and one more token
record_match(cmd) ==
    cmd.date # <<>> /\ ~(cmd.parts = <<>> /\ cmd.manual = None /\ ~cmd.std)

RecordMessage(cmd) ==
    IF ~record_match(cmd)
      THEN /\ reply' = Reply("message", "unrecognized", NULL)
           /\ UNCHANGED tables
           /\ UNCHANGED today
    ELSE RecordExpense(cmd)

\* processing dates in a common year, in December, in January and in February
\* of a leap year
ParseDates ==
    {Date(2023, 11, 10), Date(2023, 12, 5), Date(2024, 1, 20), Date(2024, 2, 15)}

RecordText(d, ps, c) == [date |-> d, parts |-> ps, manual |-> c, std |-> FALSE]

\* texts that differ in the M/D token: none, months before and after the
\* processing date, days and a month that do not exist
DateTexts ==
    {RecordText(d, <<"A", "L1">>, None) :
        d \in {<<>>, <<1, 15>>, <<2, 29>>, <<2, 30>>, <<11, 5>>, <<12, 31>>,
               <<13, 1>>}}
    \cup {RecordText(<<2, 30>>, <<"A", "L1", COMPANY_NAME>>, None),
          RecordText(<<11, 6>>, <<>>, None)}

\* texts that name the company at every position
CompanyTexts ==
    {RecordText(<<11, 6>>, ps, c) :
        ps \in {<<COMPANY_NAME>>, <<COMPANY_NAME, "L1">>, <<"A", COMPANY_NAME>>,
                <<"A", "L1", COMPANY_NAME>>, <<"A", "L1", "B", COMPANY_NAME>>,
                <<"A", "L1", COMPANY_NAME, "B">>},
        c \in {None, 9}}

\* texts with and without an amount and a token x2, for a weekend day and a
\* weekday (of 2023), at the standard and at the linked location
CostTexts ==
    {RecordText(d, ps, c) :
        d \in {<<11, 5>>, <<11, 6>>},
        ps \in {<<"A", "L1">>, <<"B", "L1">>, <<"A", "L2">>, <<"A", "L1", "x2">>},
        c \in {None, 9}}

ParseTexts == DateTexts \cup CompanyTexts \cup CostTexts

InitParse ==
    /\ members = AllNames
    /\ locations =
          {[location_name |-> "L1", weekday_cost |-> 1000, weekend_cost |-> 7,
            linked_monthly_item |-> NoItem],
           [location_name |-> "L2", weekday_cost |-> 1000, weekend_cost |-> 1000,
            linked_monthly_item |-> "Rent"]}
    /\ monthly_items =
          {[item_name |-> "Rent", default_cost |-> 300,
            default_members |-> <<"A", "B">>]}
    /\ projects = {}
    /\ project_members = {}
    /\ monthly_settlements = {}
    /\ records = {}
    /\ next_project_id = 1
    /\ next_settlement_id = 1
    /\ today \in ParseDates
    /\ reply = Reply("none", "", NULL)
    /\ request = None
    /\ request_names = <<>>
    /\ linked_mode = {}
    /\ fixed_added = {}
    /\ command = NoCommand
    /\ sessions = [t \in Sessions |-> IdleSession]
    /\ commands = 0

NextParse ==
    \E cmd \in ParseTexts :
       /\ commands < MaxParseCommands
       /\ commands' = commands + 1
       /\ request' = cmd.manual
       /\ request_names' = TypedNames(cmd)
       /\ command' = cmd
       /\ UNCHANGED sessions
       /\ RecordMessage(cmd)
       /\ TrackLinkedMode

SpecParse == InitParse /\ [][NextParse]_vars

-----------------------------------------------------------------------------
(* Record and settle commands between changes of the configuration *)

\* record commands for two days at the standard and at the linked location
LedgerRecordCommands ==
    {RecordText(d, ps, None) :
        d \in {<<11, 6>>, <<11, 7>>},
        ps \in {<<"A", "L1">>, <<"A", "L2">>, <<"B", "L2">>}}

\* settle commands for two months, with the default roster and with an
\* override that names one member twice
LedgerSettleCommands ==
    [month : {11, 12}, item : {"Rent"}, amount : {1000},
     names : {<<>>, <<"B", "B">>}]

\* the base amounts of the add-item command
LedgerItemCosts == {300, 500}

\* one more command is handled: cost is the amount, names are the names and
\* cmd is the record command typed
HandleLedger(cost, names, cmd) ==
    /\ commands < MaxLedgerCommands
    /\ commands' = commands + 1
    /\ request' = cost
    /\ request_names' = names
    /\ command' = cmd
    /\ UNCHANGED sessions

NextLedger ==
    \/ \E cmd \in LedgerRecordCommands :
          /\ HandleLedger(cmd.manual, TypedNames(cmd), cmd)
          /\ RecordMessage(cmd)
          /\ TrackLinkedMode
    \/ \E c \in LedgerSettleCommands :
          /\ HandleLedger(c.amount, c.names, NoCommand)
          /\ SettleMonthlyCost(c.month, c.item, c.amount, c.names)
          /\ TrackLinkedMode
    \/ \E c \in LedgerItemCosts :
          /\ HandleLedger(None, <<>>, NoCommand)
          /\ AddMonthlyItem("Rent", c, <<"A", "B">>)
          /\ TrackLinkedMode
    \/ /\ HandleLedger(None, <<>>, NoCommand)
       /\ AddLocation("L2", 1000, 1000)
       /\ TrackLinkedMode
    \/ /\ HandleLedger(None, <<>>, NoCommand)
       /\ AddLinkedLocation("L2", 1000, "Rent")
       /\ TrackLinkedMode

SpecLedger == InitRecord /\ [][NextLedger]_vars

-----------------------------------------------------------------------------
(* Handlers that run at the same time *)

\* Every handler opens a connection of its own (psycopg2.connect) and runs
\* its statements in one READ COMMITTED transaction.  A statement reads the
\* committed tables and the transaction's own writes; a DELETE waits for a
\* transaction that has deleted one of its rows and then skips the rows that
\* are gone; an INSERT waits for a transaction that holds the same unique
\* key.  The writes of a session are kept in its ins_ and del_ fields and
\* reach the tables when it commits.  Statements that read only the
\* configuration and INSERTs that meet no key of another session are taken
\* together with the statement that follows them.

Session(t, fields) == [sessions EXCEPT ![t] = fields]
Others(t) == Sessions \ {t}

\* the frame of a statement that is not the first of its handler
Statement ==
    UNCHANGED <<today, request, request_names, command, commands>>

\* the handler returns: the connection is closed
Return(t, r) ==
    /\ sessions' = Session(t, IdleSession)
    /\ reply' = r

\* handle_record_expense is entered with the text cmd
BeginRecord(t, cmd) ==
    LET p == parse_record_command(cmd, today)
    IN /\ sessions[t].pc = "idle"
       /\ commands < MaxOverlapCommands
       /\ commands' = commands + 1
       /\ request' = cmd.manual
       /\ request_names' = TypedNames(cmd)
       /\ UNCHANGED <<command, today>>
       /\ UNCHANGED tables
       /\ IF p.error # ""
            THEN /\ reply' = Reply("record", p.error, NULL)
                 /\ UNCHANGED sessions
          ELSE /\ sessions' = Session(t, [IdleSession EXCEPT
                                  !.pc = "select_project", !.op = "record",
                                  !.cmd = cmd])
               /\ UNCHANGED reply

\* SELECT ... FROM projects WHERE record_date = %s AND location_name = %s
SelectProject(t) ==
    LET p == parse_record_command(sessions[t].cmd, today)
        found == FindProject(p.full_date, p.location_name)
    IN /\ sessions[t].pc = "select_project"
       /\ Statement
       /\ UNCHANGED <<tables, reply>>
       /\ IF found = {}
            THEN sessions' = Session(t, [sessions[t] EXCEPT !.pc = "create"])
          ELSE \E pr \in found :
                  sessions' = Session(t, [sessions[t] EXCEPT
                                  !.pc = "select_roster", !.found = {pr}])

\* case B after the lookup has found no project, up to the commit
CreateAndCommit(t) ==
    /\ sessions[t].pc = "create"
    /\ Statement
    /\ CreateProject(parse_record_command(sessions[t].cmd, today))
    /\ sessions' = Session(t, IdleSession)

\* SELECT member_name FROM project_members WHERE project_id = %s
SelectRoster(t) ==
    LET p == parse_record_command(sessions[t].cmd, today)
        pr == CHOOSE x \in sessions[t].found : TRUE
        current_members == {pm.member_name : pm \in
                              {x \in project_members : x.project_id = pr.project_id}}
        members_to_add == MembersToAdd(p.member_names, current_members)
    IN /\ sessions[t].pc = "select_roster"
       /\ Statement
       /\ UNCHANGED tables
       /\ IF AlreadyOnRoster(members_to_add, p.member_names)
            THEN Return(t, Reply("record", "already", pr.project_id))
          ELSE /\ sessions' = Session(t, [sessions[t] EXCEPT
                                  !.pc = "insert_roster",
                                  !.current_members = current_members])
               /\ UNCHANGED reply

\* INSERT INTO project_members ... ON CONFLICT DO NOTHING
InsertRoster(t) ==
    LET p == parse_record_command(sessions[t].cmd, today)
        pr == CHOOSE x \in sessions[t].found : TRUE
        members_to_add == MembersToAdd(p.member_names, sessions[t].current_members)
        rows == {[project_id |-> pr.project_id, member_name |-> m] :
                    m \in Range(members_to_add)}
    IN /\ sessions[t].pc = "insert_roster"
       \* waits for a session that has inserted one of the rows
       /\ \A u \in Others(t) : rows \cap sessions[u].ins_roster = {}
       /\ Statement
       /\ UNCHANGED tables
       /\ IF \E m \in Range(members_to_add) : m \notin members
            THEN Return(t, Reply("record", "fk_violation", NULL))
          ELSE /\ sessions' = Session(t, [sessions[t] EXCEPT
                                  !.pc = "delete_records",
                                  !.ins_roster = rows \ project_members])
               /\ UNCHANGED reply

\* DELETE FROM records WHERE project_id = %s: the rows of the statement's
\* snapshot; it waits when another session has deleted one of them
DeleteRecords(t) ==
    LET pr == CHOOSE x \in sessions[t].found : TRUE
        target == ProjectRecords(pr.project_id)
    IN /\ sessions[t].pc = "delete_records"
       /\ Statement
       /\ UNCHANGED <<tables, reply>>
       /\ IF \E u \in Others(t) : target \cap sessions[u].del_records # {}
            THEN sessions' = Session(t, [sessions[t] EXCEPT
                                 !.pc = "delete_records_wait", !.target = target])
          ELSE sessions' = Session(t, [sessions[t] EXCEPT
                                 !.pc = "insert_records", !.del_records = target])

\* the DELETE goes on when the other transaction has ended: the rows it
\* deleted are skipped, the rows it inserted are not in the snapshot
ResumeDeleteRecords(t) ==
    /\ sessions[t].pc = "delete_records_wait"
    /\ \A u \in Others(t) : sessions[t].target \cap sessions[u].del_records = {}
    /\ Statement
    /\ UNCHANGED <<tables, reply>>
    /\ sessions' = Session(t, [sessions[t] EXCEPT
                        !.pc = "insert_records",
                        !.del_records = sessions[t].target \cap records])

\* kept after the INSERT of rows: records has no key but its SERIAL id, so a
\* row is inserted beside the rows another transaction wrote for the same
\* owner and member, as their next row
InsertBeside(kept, rows) ==
    kept \cup
    {[r EXCEPT !.n = r.n + Cardinality({k \in kept :
                              /\ k.member_name = r.member_name
                              /\ k.project_id = r.project_id
                              /\ k.monthly_settlement_id = r.monthly_settlement_id})] :
        r \in rows}

\* INSERT INTO records for the company and all_business_members; conn.commit()
InsertRecordsAndCommit(t) ==
    LET p == parse_record_command(sessions[t].cmd, today)
        pr == CHOOSE x \in sessions[t].found : TRUE
        all_business_members ==
            Sorted(sessions[t].current_members \cup Range(p.member_names))
        sp == EvenSplit(pr.total_fixed_cost, Len(all_business_members) + 1)
    IN /\ sessions[t].pc = "insert_records"
       /\ Statement
       /\ project_members' = project_members \cup sessions[t].ins_roster
       /\ records' = InsertBeside(records \ sessions[t].del_records,
             NewRecords(pr.project_id, NULL, all_business_members,
                        sp.member, sp.company))
       /\ UNCHANGED <<members, locations, monthly_items, projects,
                      monthly_settlements, next_project_id, next_settlement_id>>
       /\ Return(t, Reply("record", "merged", pr.project_id))

\* handle_settle_monthly_cost is entered
BeginSettle(t, target_month, item_name, cost_amount, specified_members) ==
    /\ sessions[t].pc = "idle"
    /\ commands < MaxOverlapCommands
    /\ commands' = commands + 1
    /\ request' = cost_amount
    /\ request_names' = specified_members
    /\ UNCHANGED <<command, today, reply>>
    /\ UNCHANGED tables
    /\ sessions' = Session(t, [IdleSession EXCEPT
                        !.pc = "settle_read", !.op = "settle",
                        !.item = item_name, !.month = target_month,
                        !.final_cost = cost_amount,
                        !.final_members = specified_members])

\* the SELECTs of the item, of the named members, of the linked locations
\* and of the projects counted, and the returns that follow them
SettleRead(t) ==
    LET item_name == sessions[t].item
        specified_members == sessions[t].final_members
        items == {it \in monthly_items : it.item_name = item_name}
        item == CHOOSE it \in items : TRUE
        final_members == FinalMembers(specified_members, item.default_members)
        total_fixed_cost_deducted ==
            Deducted(LinkedActivityDays(item_name, sessions[t].month),
                     item.default_cost)
        final_cost_to_settle ==
            FinalCostToSettle(sessions[t].final_cost, total_fixed_cost_deducted)
    IN /\ sessions[t].pc = "settle_read"
       /\ Statement
       /\ UNCHANGED tables
       /\ IF items = {}
            THEN Return(t, SettleReply("unknown_item", NULL, 0))
          ELSE IF UnknownMember(specified_members)
            THEN Return(t, SettleReply("unknown_member", NULL, 0))
          ELSE IF final_members = <<>>
            THEN Return(t, SettleReply("empty_roster", NULL, 0))
          ELSE IF sessions[t].month \notin 1..12
            THEN Return(t, SettleReply("db_error", NULL, 0))
          ELSE IF final_cost_to_settle < 0
            THEN Return(t, SettleReply("over_collected", NULL,
                                       total_fixed_cost_deducted))
          ELSE IF final_cost_to_settle = 0
            THEN Return(t, SettleReply(IF LinkedLocations(item_name) = {}
                                         THEN "db_error" ELSE "absorbed",
                                       NULL, total_fixed_cost_deducted))
          ELSE /\ sessions' = Session(t, [sessions[t] EXCEPT
                                  !.pc = "select_old",
                                  !.final_members = final_members,
                                  !.final_cost = final_cost_to_settle,
                                  !.deducted = total_fixed_cost_deducted])
               /\ UNCHANGED reply

\* the key of the settlement a session writes
SettlementDate(t) ==
    Date(SettlementYear(today, sessions[t].month), sessions[t].month, 1)

\* SELECT id FROM monthly_settlements WHERE settlement_date = %s AND item_name = %s
SelectOld(t) ==
    LET old == {st \in monthly_settlements :
                   /\ st.settlement_date = SettlementDate(t)
                   /\ st.item_name = sessions[t].item}
    IN /\ sessions[t].pc = "select_old"
       /\ Statement
       /\ UNCHANGED <<tables, reply>>
       /\ IF old = {}
            THEN sessions' = Session(t, [sessions[t] EXCEPT
                                 !.pc = "insert_settlement"])
          ELSE \E st \in old :
                  sessions' = Session(t, [sessions[t] EXCEPT
                                  !.pc = "delete_old", !.found = {st}])

\* DELETE FROM monthly_settlements WHERE id = %s; it waits when another
\* session has deleted the row
DeleteOld(t) ==
    /\ sessions[t].pc = "delete_old"
    /\ Statement
    /\ UNCHANGED <<tables, reply>>
    /\ IF \E u \in Others(t) : sessions[t].found \cap sessions[u].del_settlements # {}
         THEN sessions' = Session(t, [sessions[t] EXCEPT !.pc = "delete_old_wait"])
       ELSE sessions' = Session(t, [sessions[t] EXCEPT
                              !.pc = "insert_settlement",
                              !.del_settlements =
                                   sessions[t].found \cap monthly_settlements])

\* the DELETE goes on when the other transaction has ended
ResumeDeleteOld(t) ==
    /\ sessions[t].pc = "delete_old_wait"
    /\ \A u \in Others(t) : sessions[t].found \cap sessions[u].del_settlements = {}
    /\ Statement
    /\ UNCHANGED <<tables, reply>>
    /\ sessions' = Session(t, [sessions[t] EXCEPT
                        !.pc = "insert_settlement",
                        !.del_settlements =
                             sessions[t].found \cap monthly_settlements])

\* Mutant: the table has no unique key
SettlementKeyNotUnique(row, rows) == FALSE

\* UNIQUE (settlement_date, item_name): a row of rows holds the key of row
SettlementKeyTaken(row, rows) ==
    \E st \in rows : /\ st.settlement_date = row.settlement_date
                       /\ st.item_name = row.item_name

\* INSERT INTO monthly_settlements ... RETURNING id; it waits for a session
\* that has inserted the key or deleted the committed row of the key
InsertSettlement(t) ==
    LET row == [id |-> next_settlement_id, item_name |-> sessions[t].item,
                settlement_date |-> SettlementDate(t),
                cost_amount |-> sessions[t].final_cost,
                actual_members |-> sessions[t].final_members]
    IN /\ sessions[t].pc = "insert_settlement"
       /\ \A u \in Others(t) :
             /\ ~SettlementKeyTaken(row, sessions[u].ins_settlement)
             /\ ~SettlementKeyTaken(row, sessions[u].del_settlements
                                            \cap monthly_settlements)
       /\ Statement
       \* nextval() of the SERIAL id is not undone by a rollback
       /\ next_settlement_id' = next_settlement_id + 1
       /\ UNCHANGED <<members, locations, monthly_items, projects,
                      project_members, next_project_id>>
       /\ IF SettlementKeyTaken(row, monthly_settlements
                                        \ sessions[t].del_settlements)
            \* except Exception: conn.rollback()
            THEN /\ monthly_settlements' =
                       Rollback(monthly_settlements,
                                monthly_settlements \ sessions[t].del_settlements)
                 /\ records' =
                       Rollback(records, RecordsAfterSettlementDelete(
                           {st.id : st \in sessions[t].del_settlements}))
                 /\ Return(t, SettleReply("db_error", NULL, sessions[t].deducted))
          ELSE /\ sessions' = Session(t, [sessions[t] EXCEPT
                                  !.pc = "settle_records",
                                  !.ins_settlement = {row}])
               /\ UNCHANGED <<monthly_settlements, records, reply>>

\* INSERT INTO records for the company and final_members; conn.commit()
SettleRecordsAndCommit(t) ==
    LET row == CHOOSE st \in sessions[t].ins_settlement : TRUE
        final_members == sessions[t].final_members
        sp == EvenSplit(sessions[t].final_cost, Len(final_members) + 1)
        old_ids == {st.id : st \in sessions[t].del_settlements}
    IN /\ sessions[t].pc = "settle_records"
       /\ Statement
       /\ UNCHANGED <<members, locations, monthly_items, projects,
                      project_members, next_project_id, next_settlement_id>>
       /\ IF \E n \in Range(final_members) : n \notin members
            THEN /\ monthly_settlements' =
                       Rollback(monthly_settlements,
                                (monthly_settlements \ sessions[t].del_settlements)
                                \cup {row})
                 /\ records' = Rollback(records,
                                        RecordsAfterSettlementDelete(old_ids))
                 /\ Return(t, SettleReply("fk_violation", NULL,
                                          sessions[t].deducted))
          ELSE /\ monthly_settlements' =
                     (monthly_settlements \ sessions[t].del_settlements)
                     \cup {row}
               /\ records' = RecordsAfterSettlementDelete(old_ids)
                     \cup NewRecords(NULL, row.id, final_members,
                                     sp.member, sp.company)
               /\ Return(t, SettleReply(IF sessions[t].found = {} THEN "settled"
                                        ELSE "resettled", row.id,
                                        sessions[t].deducted))

\* record commands of one member for one day at the standard location, and
\* settle commands of one month and item with and without an override
OverlapRecordCommands ==
    {RecordText(<<11, 6>>, <<m, "L1">>, None) : m \in SalesNames}
OverlapSettleCommands ==
    [item : {"Rent"}, amount : {1000}, names : {<<>>, <<"C">>}]

NextOverlap ==
    \E t \in Sessions :
       \/ \E cmd \in OverlapRecordCommands : BeginRecord(t, cmd) /\ TrackLinkedMode
       \/ SelectProject(t) /\ TrackLinkedMode
       \/ CreateAndCommit(t) /\ TrackLinkedMode
       \/ SelectRoster(t) /\ TrackLinkedMode
       \/ InsertRoster(t) /\ TrackLinkedMode
       \/ DeleteRecords(t) /\ TrackLinkedMode
       \/ ResumeDeleteRecords(t) /\ TrackLinkedMode
       \/ InsertRecordsAndCommit(t) /\ TrackLinkedMode
       \/ \E c \in OverlapSettleCommands :
             BeginSettle(t, 11, c.item, c.amount, c.names) /\ TrackLinkedMode
       \/ SettleRead(t) /\ TrackLinkedMode
       \/ SelectOld(t) /\ TrackLinkedMode
       \/ DeleteOld(t) /\ TrackLinkedMode
       \/ ResumeDeleteOld(t) /\ TrackLinkedMode
       \/ InsertSettlement(t) /\ TrackLinkedMode
       \/ SettleRecordsAndCommit(t) /\ TrackLinkedMode

SpecOverlap == InitRecord /\ [][NextOverlap]_vars

-----------------------------------------------------------------------------
(* Properties *)

Project(pid) == CHOOSE pr \in projects : pr.project_id = pid
Settlement(sid) == CHOOSE st \in monthly_settlements : st.id = sid
Roster(pid) == {pm.member_name : pm \in {x \in project_members : x.project_id = pid}}
CompanyRecords(rows) == {r \in rows : r.member_name = COMPANY_NAME}
MemberRecords(rows) == {r \in rows : r.member_name # COMPANY_NAME}

\* the last command was a record command that wrote a split
RecordSucceeded ==
    /\ reply.op = "record"
    /\ reply.kind \in {"created_linked", "created_standard", "merged"}

RecordMerged == reply.op = "record" /\ reply.kind = "merged"

SettleSucceeded ==
    reply.op = "settle" /\ reply.kind \in {"settled", "resettled"}

\* C1: after every successful record command (create in linked or standard
\* mode, or merge into an existing project) the cost_paid of the Records of
\* that project sum exactly to the project's total_fixed_cost.
C1_RecordsSumToTotal ==
    RecordSucceeded =>
        /\ \E pr \in projects : pr.project_id = reply.id
        /\ SumCost(ProjectRecords(reply.id)) = Project(reply.id).total_fixed_cost

\* C1 witness: a merge left a project with three members whose total is not
\* divisible by the number of sharers.
C1_Witness ==
    /\ RecordMerged
    /\ Cardinality(Roster(reply.id)) = 3
    /\ Project(reply.id).total_fixed_cost % 4 # 0

\* C2: in every reachable state the Records of every stored project sum to
\* its total cost and the Records of every stored settlement sum to its
\* stored amount.
C2_ReconciledEverywhere ==
    /\ \A pr \in projects :
          SumCost(ProjectRecords(pr.project_id)) = pr.total_fixed_cost
    /\ \A st \in monthly_settlements :
          SumCost(SettlementRecords(st.id)) = st.cost_amount

\* C3: after every settle command that writes Records, the stored
\* cost_amount is the invoice minus the deducted amount and the Records of
\* the settlement sum exactly to it.
C3_SettlementSumsToRemainder ==
    SettleSucceeded =>
        /\ \E st \in monthly_settlements : st.id = reply.id
        /\ Settlement(reply.id).cost_amount = request - reply.deducted
        /\ SumCost(SettlementRecords(reply.id)) = request - reply.deducted

\* C3 witness: a settlement was written after a deduction, so the remainder
\* differs from the invoice.
C3_Witness ==
    /\ SettleSucceeded
    /\ reply.deducted > 0
    /\ SumCost(SettlementRecords(reply.id)) < request

\* C4: a record command without an amount that adds a member to an existing
\* project leaves the project's row, and so its total cost, unchanged: only
\* the roster and the Records change.
C4_MergeKeepsTotal ==
    [][(RecordMerged' /\ request' = None) =>
          /\ \E pr \in projects : pr.project_id = reply'.id
          /\ projects' = projects
          /\ UNCHANGED <<members, locations, monthly_items, monthly_settlements>>]_vars

\* C4 witness: a member was added without an amount to a project that had a
\* member already.
C4_Witness ==
    /\ RecordMerged
    /\ request = None
    /\ Cardinality(Roster(reply.id)) >= 2

\* C5 as stated: after a record command with an amount for an existing
\* project, the stored total is that amount.
C5_OverrideUpdatesTotal ==
    (RecordMerged /\ request # None) =>
        Project(reply.id).total_fixed_cost = request

\* C5 amended: a record command with an amount for an existing project
\* ignores the amount: the project's row stays as it was, and when the
\* command adds a member the regenerated Records sum to the stored total.
C5_OverrideIgnoredOnMerge ==
    [][(reply'.op = "record" /\ reply'.kind \in {"merged", "already"}
        /\ request' # None) =>
          /\ \E pr \in projects : pr.project_id = reply'.id
          /\ projects' = projects
          /\ RecordMerged' =>
                SumCost({r \in records' : r.project_id = reply'.id})
                   = Project(reply'.id).total_fixed_cost]_vars

\* C5 witness: a merge with an amount that differs from the stored total.
C5_Witness ==
    /\ RecordMerged
    /\ request # None
    /\ Project(reply.id).total_fixed_cost # request

\* C6: there is at most one project for each (date, location) pair.
C6_OneProjectPerKey ==
    \A p1, p2 \in projects :
        (p1.record_date = p2.record_date /\ p1.location_name = p2.location_name)
            => p1 = p2

\* C6 witness: a record command found the project of its pair while another
\* project was stored too.
C6_Witness ==
    /\ reply.op = "record"
    /\ reply.kind \in {"merged", "already"}
    /\ Cardinality(projects) = 2

\* C7: there is at most one settlement for each (settlement month, item)
\* pair.
C7_OneSettlementPerKey ==
    \A s1, s2 \in monthly_settlements :
        (s1.settlement_date = s2.settlement_date /\ s1.item_name = s2.item_name)
            => s1 = s2

\* C7 witness: a settle command replaced the settlement of its key.
C7_Witness ==
    /\ reply.op = "settle"
    /\ reply.kind = "resettled"
    /\ Cardinality(monthly_settlements) = 1

\* C8: every Record is owned by exactly one stored project or by exactly one
\* stored settlement, never by both and never by neither.
C8_OneOwner ==
    \A r \in records :
        \/ /\ r.project_id # NULL
           /\ r.monthly_settlement_id = NULL
           /\ Cardinality({pr \in projects : pr.project_id = r.project_id}) = 1
        \/ /\ r.project_id = NULL
           /\ r.monthly_settlement_id # NULL
           /\ Cardinality({st \in monthly_settlements :
                              st.id = r.monthly_settlement_id}) = 1

\* C8 witness: Records of a project and Records of a settlement are stored.
C8_Witness ==
    /\ \E r \in records : r.project_id # NULL
    /\ \E r \in records : r.monthly_settlement_id # NULL

\* C9: a project created in standard mode with cost C and N >= 1 members has
\* one Record of (C div 2) div N per member and one Record of C minus N times
\* that amount for the company.
C9_StandardSplit ==
    (reply.op = "record" /\ reply.kind = "created_standard") =>
        LET rows == ProjectRecords(reply.id)
            C == Project(reply.id).total_fixed_cost
            N == Cardinality(Roster(reply.id))
            share == (C \div 2) \div N
        IN /\ N >= 1
           /\ Cardinality(rows) = N + 1
           /\ {r.member_name : r \in MemberRecords(rows)} = Roster(reply.id)
           /\ \A r \in MemberRecords(rows) : r.cost_paid = share
           /\ \A r \in CompanyRecords(rows) : r.cost_paid = C - N * share

\* C9 witness: cost 1000 and 3 members give 166 each and 502 for the company.
C9_Witness ==
    /\ reply.op = "record" /\ reply.kind = "created_standard"
    /\ Project(reply.id).total_fixed_cost = 1000
    /\ Cardinality(Roster(reply.id)) = 3
    /\ \A r \in MemberRecords(ProjectRecords(reply.id)) : r.cost_paid = 166
    /\ \E r \in CompanyRecords(ProjectRecords(reply.id)) : r.cost_paid = 502

\* the event's own cost of the project just created: the typed amount, else
\* the location's rate of the day
EventCost(pr) ==
    ActivityCost(request, get_location_details(pr.location_name, pr.record_date).cost)

\* the fixed cost of the item the project's location is linked to
LinkedItemCost(pr) ==
    LET l == CHOOSE x \in locations : x.location_name = pr.location_name
    IN (CHOOSE it \in monthly_items : it.item_name = l.linked_monthly_item).default_cost

RecordCreatedLinked == reply.op = "record" /\ reply.kind = "created_linked"

\* C10 as stated: a project created in linked mode has the event's own cost
\* as its total and splits it by the two-tier rule.
C10_LinkedTwoTier ==
    RecordCreatedLinked =>
        LET rows == ProjectRecords(reply.id)
            pr == Project(reply.id)
            N == Cardinality(Roster(reply.id))
            share == (EventCost(pr) \div 2) \div N
        IN /\ pr.total_fixed_cost = EventCost(pr)
           /\ \A r \in MemberRecords(rows) : r.cost_paid = share
           /\ \A r \in CompanyRecords(rows) : r.cost_paid = EventCost(pr) - N * share

\* C10 amended: a project created in linked mode has as its total the
\* event's own cost plus the linked item's fixed cost, and splits the total
\* in N + 1 equal shares: total div (N + 1) per member, and the same plus
\* total mod (N + 1) for the company.
C10_LinkedEvenSplit ==
    RecordCreatedLinked =>
        LET rows == ProjectRecords(reply.id)
            pr == Project(reply.id)
            N == Cardinality(Roster(reply.id))
            total == EventCost(pr) + LinkedItemCost(pr)
        IN /\ N >= 1
           /\ pr.total_fixed_cost = total
           /\ Cardinality(rows) = N + 1
           /\ {r.member_name : r \in MemberRecords(rows)} = Roster(reply.id)
           /\ \A r \in MemberRecords(rows) : r.cost_paid = total \div (N + 1)
           /\ \A r \in CompanyRecords(rows) :
                 r.cost_paid = (total \div (N + 1)) + (total % (N + 1))

\* C10 witness: a linked project with two members whose total leaves a
\* remainder.
C10_Witness ==
    /\ RecordCreatedLinked
    /\ Cardinality(Roster(reply.id)) = 2
    /\ Project(reply.id).total_fixed_cost % 3 # 0

-----------------------------------------------------------------------------
(* Properties of the settlement *)

\* the item of a stored settlement (kept by ON DELETE RESTRICT)
ItemOf(st) == CHOOSE it \in monthly_items : it.item_name = st.item_name

\* the stored projects at the locations linked to the item that are dated in
\* the month number and carry the mark of the linked branch
CountedProjects(item_name, month) ==
    {pr \in projects : /\ pr.location_name \in LinkedLocations(item_name)
                       /\ pr.record_date.m = month
                       /\ pr.member_cost_pool = pr.total_fixed_cost}

\* a / b rounded to the nearest integer
Round(a, b) == ((2 * a) + b) \div (2 * b)

\* C11 as stated: the deducted amount of a settlement is the invoice divided
\* by a capacity of the month (any number of days of the linked locations),
\* times the consumed units, rounded; the stored amount is the invoice minus
\* it.
C11_DeductedByCapacity ==
    SettleSucceeded =>
        LET st == Settlement(reply.id)
            consumedUnits ==
                Cardinality(CountedProjects(st.item_name, st.settlement_date.m))
        IN \E totalCapacity \in 1..(31 * Cardinality(locations)) :
              /\ reply.deducted = Round(consumedUnits * request, totalCapacity)
              /\ st.cost_amount = request - reply.deducted

\* C11 amended: the deducted amount is the number of counted projects times
\* the item's default_cost, whatever the invoice; the stored amount is the
\* invoice minus it, and a settle command that stores nothing found the
\* invoice not to exceed such a deduction.
C11_DeductedByDefaultCost ==
    /\ SettleSucceeded =>
          LET st == Settlement(reply.id)
              consumedUnits ==
                  Cardinality(CountedProjects(st.item_name, st.settlement_date.m))
          IN /\ reply.deducted = consumedUnits * ItemOf(st).default_cost
             /\ st.cost_amount = request - reply.deducted
    /\ (reply.op = "settle" /\ reply.kind \in {"over_collected", "absorbed"}) =>
          \E it \in monthly_items, m \in 1..12 :
             /\ reply.deducted =
                   Cardinality(CountedProjects(it.item_name, m)) * it.default_cost
             /\ request - reply.deducted <= 0

\* C11 witness: invoice 1000, default cost 300 and two counted projects give
\* deducted 600 and a stored amount of 400.
C11_Witness ==
    /\ SettleSucceeded
    /\ request = 1000
    /\ Cardinality(CountedProjects("Rent", 1)) = 2
    /\ reply.deducted = 600
    /\ Settlement(reply.id).cost_amount = 400

\* C12: the projects a settlement counts are exactly the stored projects of
\* the month number at the item's linked locations that were created in
\* linked mode.
C12_CountsLinkedModeOnly ==
    SettleSucceeded =>
        LET st == Settlement(reply.id)
            linked_mode_projects ==
                {pr \in projects :
                    /\ pr.project_id \in linked_mode
                    /\ pr.location_name \in LinkedLocations(st.item_name)
                    /\ pr.record_date.m = st.settlement_date.m}
        IN reply.deducted =
              Cardinality(linked_mode_projects) * ItemOf(st).default_cost

\* C13: the projects a settlement counts are dated in the month and the year
\* of its settlement date.
C13_CountsSettlementMonthOnly ==
    SettleSucceeded =>
        LET st == Settlement(reply.id)
            of_the_month ==
                {pr \in CountedProjects(st.item_name, st.settlement_date.m) :
                    pr.record_date.y = st.settlement_date.y}
        IN reply.deducted = Cardinality(of_the_month) * ItemOf(st).default_cost

\* C14: a settle command that writes Records for the stored amount R and a
\* roster of N names writes one Record of R div (N + 1) per roster name and
\* one Record of R div (N + 1) plus R mod (N + 1) for the company.
C14_SettleEvenSplit ==
    SettleSucceeded =>
        LET st == Settlement(reply.id)
            rows == SettlementRecords(reply.id)
            R == st.cost_amount
            N == Len(st.actual_members)
        IN /\ R > 0
           /\ N >= 1
           /\ Cardinality(MemberRecords(rows)) = N
           /\ {r.member_name : r \in MemberRecords(rows)} = Range(st.actual_members)
           /\ \A r \in MemberRecords(rows) : r.cost_paid = R \div (N + 1)
           /\ Cardinality(CompanyRecords(rows)) = 1
           /\ \A r \in CompanyRecords(rows) :
                 r.cost_paid = (R \div (N + 1)) + (R % (N + 1))

\* C14 witness: 1000 settled for a roster of two: 333 each and 334 for the
\* company, where halving first would give 250 each.
C14_Witness ==
    /\ SettleSucceeded
    /\ Settlement(reply.id).cost_amount = 1000
    /\ Len(Settlement(reply.id).actual_members) = 2
    /\ \A r \in MemberRecords(SettlementRecords(reply.id)) : r.cost_paid = 333
    /\ \E r \in CompanyRecords(SettlementRecords(reply.id)) : r.cost_paid = 334

\* a settle command that got as far as the deduction
SettleComputed(r) ==
    /\ r.op = "settle"
    /\ r.kind \notin {"unknown_item", "unknown_member", "empty_roster"}

\* C15: a settle command whose invoice minus deduction is negative or zero
\* replies with the over-collection or the fully-absorbed report and changes
\* no table.
C15_NothingLeftToSettle ==
    [][(SettleComputed(reply') /\ request' - reply'.deducted <= 0) =>
          /\ reply'.kind \in {"over_collected", "absorbed"}
          /\ UNCHANGED tables]_vars

\* the key of a settlement
SameKey(s1, s2) ==
    s1.settlement_date = s2.settlement_date /\ s1.item_name = s2.item_name

\* C16: after a settle command that replaced a settlement, the prior row of
\* the key is gone, the key has the new row only, whose roster is the typed
\* override (without the company) or else the item's default roster, and the
\* Records attached to the key, old row or new, are one Record of the new
\* row per roster name and one for the company.
C16_ResettleReplaces ==
    [][(reply'.op = "settle" /\ reply'.kind = "resettled") =>
          LET new == CHOOSE st \in monthly_settlements' : st.id = reply'.id
              prior == {st \in monthly_settlements : SameKey(st, new)}
              roster == IF request_names' # <<>>
                          THEN WithoutCompany(request_names')
                          ELSE ItemOf(new).default_members
              attached == {r \in records' :
                             \E st \in prior \cup {new} :
                                r.monthly_settlement_id = st.id}
          IN /\ prior # {}
             /\ prior \cap monthly_settlements' = {}
             /\ {st \in monthly_settlements' : SameKey(st, new)} = {new}
             /\ new.actual_members = roster
             /\ \A r \in attached : r.monthly_settlement_id = new.id
             /\ {r.member_name : r \in attached} = Range(roster) \cup {COMPANY_NAME}
             /\ Cardinality(attached) = Len(roster) + 1]_vars

\* C16 witness: a settlement of the default roster was replaced by one of an
\* override roster: the only Records of a settlement are the two of the new
\* row.
C16_Witness ==
    /\ reply.op = "settle" /\ reply.kind = "resettled"
    /\ request_names = <<"B">>
    /\ reply.id = 2
    /\ {r.member_name : r \in SettlementRecords(2)} = {"B", COMPANY_NAME}
    /\ \A r \in records : r.monthly_settlement_id \in {NULL, 2}

-----------------------------------------------------------------------------
(* Properties of failing commands *)

\* the reply of a record command that did not parse or named a location that
\* is not configured
RecordRejected(r) ==
    /\ r.op = "record"
    /\ r.kind \in {"bad_date_format", "no_such_date", "too_few_tokens",
                   "company_in_members", "unknown_location"}

\* the reply of a settle command that named an unknown item or an unknown
\* member, or had no roster left
SettleRejected(r) ==
    /\ r.op = "settle"
    /\ r.kind \in {"unknown_item", "unknown_member", "empty_roster"}

\* C17: a command that replies with a parse error, an unknown location, an
\* unknown item, an unknown member of the override or an empty roster changes
\* no project, roster row, settlement or Record; and a settle command whose
\* override names an unregistered member gets such a reply.
C17_RejectedWritesNothing ==
    [][/\ (RecordRejected(reply') \/ SettleRejected(reply')) =>
             UNCHANGED <<projects, project_members, monthly_settlements, records>>
       /\ (reply'.op = "settle"
           /\ \E n \in Range(request_names') : n \notin members) =>
             SettleRejected(reply')]_vars

\* C17 witness: a record command naming the company was rejected while a
\* project and a settlement were stored.
C17_Witness ==
    /\ reply.op = "record" /\ reply.kind = "company_in_members"
    /\ projects # {}
    /\ monthly_settlements # {}
    /\ records # {}

\* the reply of a record or settle command of which a write failed
CommandFailed(r) ==
    /\ r.op \in {"record", "settle"}
    /\ r.kind \in {"fk_violation", "db_error"}

\* C18: a record or settle command of which a write fails leaves every
\* table as it was before the command.
C18_AllOrNothing ==
    [][CommandFailed(reply') =>
          UNCHANGED <<members, locations, monthly_items, projects,
                      project_members, monthly_settlements, records>>]_vars

\* C18 witness: a settle command failed on a deleted member of the default
\* roster while a settlement of its key was stored with Records.
C18_Witness ==
    /\ reply.op = "settle" /\ reply.kind = "fk_violation"
    /\ \E st \in monthly_settlements :
          /\ st.item_name = "Rent"
          /\ st.settlement_date = Date(SettlementYear(today, 1), 1, 1)
          /\ SettlementRecords(st.id) # {}

\* C19: a record command for an existing project whose names are all on the
\* roster changes no table, and the record command that follows a merge with
\* the same names for the same project changes no table.
C19_MergeIdempotent ==
    [][/\ (/\ reply'.op = "record"
           /\ reply'.kind \in {"merged", "already"}
           /\ Range(request_names') \subseteq Roster(reply'.id)) =>
             UNCHANGED tables
       /\ (/\ RecordMerged
           /\ reply'.op = "record"
           /\ reply'.id = reply.id
           /\ request_names' = request_names) =>
             (reply'.kind = "already" /\ UNCHANGED tables)]_vars

\* C19 witness: the command that added B to the project of A at the linked
\* location was issued again.
C19_Witness ==
    /\ reply.op = "record" /\ reply.kind = "already"
    /\ request_names = <<"B">>
    /\ Roster(reply.id) = {"A", "B"}
    /\ Project(reply.id).location_name = "L2"
    /\ Cardinality(ProjectRecords(reply.id)) = 3

\* C20: a delete-location command removes no location that a project
\* references and a delete-item command removes no item that a settlement
\* references; when such a command is rejected no table changes, and when it
\* is carried out only the table of locations, or of items with the links to
\* the item, changes.
C20_ReferencedNotDeleted ==
    [][/\ reply'.op = "delete_location" =>
             /\ \A pr \in projects :
                   \E l \in locations' : l.location_name = pr.location_name
             /\ reply'.kind # "ok" => UNCHANGED tables
             /\ UNCHANGED <<members, monthly_items, projects, project_members,
                            monthly_settlements, records>>
       /\ reply'.op = "delete_item" =>
             /\ \A st \in monthly_settlements :
                   \E it \in monthly_items' : it.item_name = st.item_name
             /\ reply'.kind # "ok" => UNCHANGED tables
             /\ UNCHANGED <<members, projects, project_members,
                            monthly_settlements, records>>]_vars

\* C20 witness: the deletion of a location was rejected while a project of
\* the location was stored.
C20_Witness ==
    /\ reply.op = "delete_location"
    /\ reply.kind \in RestrictReplies
    /\ \E pr \in projects : \E l \in locations : l.location_name = pr.location_name
    /\ records # {}

\* C21: in every reachable state the company is a registered member, and
\* every stored project and every stored settlement has exactly one record of
\* the company; no command, a delete-member command that names the company
\* included, removes the company or its records.
C21_CompanyAlwaysPresent ==
    /\ COMPANY_NAME \in members
    /\ \A pr \in projects :
          Cardinality(CompanyRecords(ProjectRecords(pr.project_id))) = 1
    /\ \A st \in monthly_settlements :
          Cardinality(CompanyRecords(SettlementRecords(st.id))) = 1

\* a delete-member command has named the company while a project and a
\* settlement are stored
C21_Witness ==
    /\ reply.op = "delete_member" /\ reply.kind = "company"
    /\ projects # {}
    /\ monthly_settlements # {}

\* the replies of parse_record_command's four errors
ParseErrors ==
    {"bad_date_format", "no_such_date", "too_few_tokens", "company_in_members"}

\* C22: a record command that names the company among its member tokens, at
\* whatever position, is rejected with a parse error and creates or changes no
\* project, roster row or Record.
C22_CompanyTokenRejected ==
    [][(reply'.op = "record" /\ COMPANY_NAME \in Range(request_names')) =>
          /\ reply'.kind \in ParseErrors
          /\ UNCHANGED <<projects, project_members, records>>]_vars

\* C22 witness: the company was the last of three member tokens, the command
\* was rejected for it and a project was stored.
C22_Witness ==
    /\ reply.op = "record" /\ reply.kind = "company_in_members"
    /\ command.parts = <<"A", "L1", "B", COMPANY_NAME>>
    /\ projects # {}

\* the days of the months of a common year
MonthDays == <<31, 28, 31, 30, 31, 30, 31, 31, 30, 31, 30, 31>>

\* no day d of month m in year y
NotInCalendar(y, m, d) ==
    \/ m < 1 \/ m > 12 \/ d < 1
    \/ (m \in 1..12 /\ d > MonthDays[m]
         /\ ~(m = 2 /\ d = 29 /\ y % 4 = 0 /\ (y % 100 # 0 \/ y % 400 = 0)))

\* C23: a record command whose M/D token is no calendar date in the inferred
\* year (2/30, or 2/29 in a common year) is rejected with a parse error and
\* creates no project.
C23_NoSuchDateRejected ==
    [][(/\ reply'.op = "record"
        /\ command'.date # <<>>
        /\ NotInCalendar(RecordYear(today, command'.date[1]),
                         command'.date[1], command'.date[2])) =>
          /\ reply'.kind \in ParseErrors
          /\ UNCHANGED <<projects, project_members, records>>]_vars

\* C23 witness: 2/29 was rejected in a common year.
C23_Witness ==
    /\ reply.op = "record" /\ reply.kind = "no_such_date"
    /\ command.date = <<2, 29>>
    /\ today.y % 4 # 0

\* C24: a record command that has no date token is accepted and its project
\* is dated with the processing date.
C24_NoDateMeansToday ==
    [][(command' # NoCommand /\ command'.date = <<>>) =>
          /\ RecordSucceeded'
          /\ \E pr \in projects' :
                pr.project_id = reply'.id /\ pr.record_date = today]_vars

\* C24 as amended: a text that has no date token is not taken as a record
\* command: it is answered as an unrecognised format and no project, roster
\* row or Record is created or changed.
C24_NoDateNotRecognised ==
    [][(command' # NoCommand /\ command'.date = <<>>) =>
          /\ reply' = Reply("message", "unrecognized", NULL)
          /\ UNCHANGED tables]_vars

\* C24 witness: the text "A L1" was answered as an unrecognised format.
C24_Witness ==
    /\ reply = Reply("message", "unrecognized", NULL)
    /\ command.date = <<>>
    /\ command.parts = <<"A", "L1">>

\* days of year y before its month m
RECURSIVE DaysBeforeMonth(_, _)
DaysBeforeMonth(y, m) ==
    IF m <= 1 THEN 0
    ELSE MonthDays[m - 1]
         + (IF m - 1 = 2 /\ y % 4 = 0 /\ (y % 100 # 0 \/ y % 400 = 0) THEN 1 ELSE 0)
         + DaysBeforeMonth(y, m - 1)

\* the number of the day dt, counted from the start of the calendar
DayNumber(dt) ==
    LET py == dt.y - 1
    IN 365 * py + (py \div 4) - (py \div 100) + (py \div 400)
       + DaysBeforeMonth(dt.y, dt.m) + dt.d

DaysApart(d1, d2) ==
    IF DayNumber(d1) >= DayNumber(d2) THEN DayNumber(d1) - DayNumber(d2)
    ELSE DayNumber(d2) - DayNumber(d1)

\* C25: the date of a created project is, among the same M/D in the previous,
\* the current and the next year, the one nearest to the processing date.
C25_NearestYear ==
    (reply.op = "record" /\ reply.kind \in {"created_linked", "created_standard"}) =>
        LET dt == Project(reply.id).record_date
        IN \A yy \in {today.y - 1, today.y, today.y + 1} :
              ~NotInCalendar(yy, dt.m, dt.d) =>
                  DaysApart(dt, today) <= DaysApart(Date(yy, dt.m, dt.d), today)

\* the location's configured cost for the day dt: the weekend rate on
\* Saturday and Sunday, the weekday rate otherwise
DayRate(location_name, dt) ==
    LET l == CHOOSE x \in locations : x.location_name = location_name
    IN IF Weekday(dt) \in {5, 6} THEN l.weekend_cost ELSE l.weekday_cost

\* C26: when a project is created by a command that carries the multiplier
\* x2, the cost that is split is the override if one is given and twice the
\* location's configured cost otherwise.
C26_MultiplierScalesCost ==
    [][("x2" \in Range(command'.parts) /\ projects = {}) =>
          \E pr \in projects' :
             pr.total_fixed_cost =
                IF request' # None THEN request'
                ELSE 2 * DayRate(pr.location_name, pr.record_date)]_vars

\* C26 as amended: when a project is created, the event's cost is the
\* override if one is given and the location's configured cost for the day
\* otherwise; a standard-mode project splits this cost and a linked-mode
\* project splits it plus the item's default cost.  No token is a multiplier:
\* every token after the location is a member name, so x2 joins the roster
\* when a member of that name is registered and fails the command otherwise.
C26_OverrideElseLocationCost ==
    [][/\ (reply'.op = "record"
           /\ reply'.kind \in {"created_linked", "created_standard"}) =>
             \E pr \in projects' \ projects :
                LET event == IF request' # None THEN request'
                             ELSE DayRate(pr.location_name, pr.record_date)
                    item == CHOOSE it \in monthly_items :
                               \E l \in locations :
                                  /\ l.location_name = pr.location_name
                                  /\ l.linked_monthly_item = it.item_name
                IN /\ pr.project_id = reply'.id
                   /\ pr.total_fixed_cost =
                         IF reply'.kind = "created_linked"
                           THEN event + item.default_cost ELSE event
                   /\ {pm.member_name : pm \in project_members' \ project_members}
                         = Range(request_names')
       /\ (reply'.op = "record" /\ "x2" \in Range(request_names')
           /\ "x2" \notin members) =>
             /\ reply'.kind \in ParseErrors \cup {"unknown_location", "fk_violation"}
             /\ UNCHANGED tables]_vars

\* C26 witness: a project was created on a weekend day with an override.
C26_Witness ==
    /\ reply.op = "record" /\ reply.kind = "created_standard"
    /\ request = 9
    /\ Weekday(Project(reply.id).record_date) = 6
    /\ Project(reply.id).total_fixed_cost = 9

\* no handler is running
Quiescent == \A t \in Sessions : sessions[t].pc = "idle"

\* C27: when record commands for one (date, location) have run at the same
\* time and have ended, one project is stored for the pair, never two.
C27_OneProjectAfterOverlap ==
    Quiescent =>
        \A p1 \in projects, p2 \in projects :
            (p1.record_date = p2.record_date
             /\ p1.location_name = p2.location_name) => p1 = p2

\* C28: when record commands that add members to one stored project have run
\* at the same time and have ended, the project has one Record for each
\* member of its roster and one for the company, and they sum to its total.
C28_OverlappingMergesSerial ==
    Quiescent =>
        \A pr \in projects :
            LET rows == ProjectRecords(pr.project_id)
            IN /\ {r.member_name : r \in rows}
                     = Roster(pr.project_id) \cup {COMPANY_NAME}
               /\ Cardinality(rows) = Cardinality(Roster(pr.project_id)) + 1
               /\ SumCost(rows) = pr.total_fixed_cost

\* C29: when settle commands for one (month, item) have run at the same
\* time and have ended, at most one settlement is stored for the key, its
\* Records are those of the command that wrote it (one for each of its
\* members and one for the company) and sum to its amount, and no Record of
\* another settlement is left.
C29_OverlappingSettlesSerial ==
    Quiescent =>
        /\ \A s1 \in monthly_settlements, s2 \in monthly_settlements :
              (s1.settlement_date = s2.settlement_date
               /\ s1.item_name = s2.item_name) => s1 = s2
        /\ \A st \in monthly_settlements :
              LET rows == SettlementRecords(st.id)
              IN /\ {r.member_name : r \in rows}
                       = Range(st.actual_members) \cup {COMPANY_NAME}
                 /\ Cardinality(rows) = Len(st.actual_members) + 1
                 /\ SumCost(rows) = st.cost_amount
        /\ \A r \in records :
              r.monthly_settlement_id # NULL =>
                 \E st \in monthly_settlements : st.id = r.monthly_settlement_id

\* C29 witness: of two settle commands that ran at the same time the second
\* to insert has failed on the key and one settlement is stored.
C29_Witness ==
    /\ Quiescent
    /\ reply.op = "settle" /\ reply.kind = "db_error"
    /\ Cardinality(monthly_settlements) = 1
    /\ records # {}

\* C30: the Records of a project depend on its split mode, its total and its
\* roster only: after every successful record command they are the Records
\* that one command naming the whole roster writes, two-tier for a
\* standard-mode project and even for a linked-mode project, however many
\* commands have built the roster.
C30_RecordsFollowMode ==
    RecordSucceeded =>
        LET pr == Project(reply.id)
            roster == Sorted(Roster(reply.id))
            sp == IF reply.id \in linked_mode
                    THEN EvenSplit(pr.total_fixed_cost, Len(roster) + 1)
                    ELSE StandardSplit(pr.total_fixed_cost, Len(roster))
        IN ProjectRecords(reply.id)
              = NewRecords(reply.id, NULL, roster, sp.member, sp.company)

\* a project, its roster rows and its Records
ProjectRows(pr, ps, pms, rs) ==
    <<pr \in ps,
      {pm \in pms : pm.project_id = pr.project_id},
      {r \in rs : r.project_id = pr.project_id}>>

\* a settlement and its Records
SettlementRows(st, sts, rs) ==
    <<st \in sts, {r \in rs : r.monthly_settlement_id = st.id}>>

\* C31: a record command for (date, location) leaves every project of another
\* (date, location) with its roster rows and Records, and every settlement
\* with its Records, unchanged; a settle command leaves every project with
\* its roster rows and Records unchanged, and every settlement of another
\* key than the one it writes with its Records.
C31_OtherKeysUnchanged ==
    [][/\ reply'.op = "record" =>
             /\ \A pr \in projects \cup projects' :
                   (\/ pr.location_name # command'.parts[2]
                    \/ pr.record_date.m # command'.date[1]
                    \/ pr.record_date.d # command'.date[2]) =>
                      ProjectRows(pr, projects', project_members', records')
                        = ProjectRows(pr, projects, project_members, records)
             /\ \A st \in monthly_settlements \cup monthly_settlements' :
                   SettlementRows(st, monthly_settlements', records')
                     = SettlementRows(st, monthly_settlements, records)
       /\ reply'.op = "settle" =>
             /\ \A pr \in projects \cup projects' :
                   ProjectRows(pr, projects', project_members', records')
                     = ProjectRows(pr, projects, project_members, records)
             /\ \A st \in monthly_settlements \cup monthly_settlements' :
                   (\A w \in monthly_settlements' :
                       w.id = reply'.id =>
                          (\/ w.settlement_date # st.settlement_date
                           \/ w.item_name # st.item_name)) =>
                      SettlementRows(st, monthly_settlements', records')
                        = SettlementRows(st, monthly_settlements, records)]_vars

\* C31 witness: a record command has added a member to one project while a
\* project of another key and a settlement were stored.
C31_Witness ==
    /\ RecordMerged
    /\ Cardinality(projects) = 2
    /\ monthly_settlements # {}

\* the Records of all stored allocations, one set per project or settlement
Allocations ==
    {ProjectRecords(pr.project_id) : pr \in projects}
    \cup {SettlementRecords(st.id) : st \in monthly_settlements}

\* C32: in every stored allocation all Records of members have the same cost
\* and the company's Record is not smaller: the remainders of the divisions
\* are the company's.
C32_RemainderToCompany ==
    \A rows \in Allocations :
        /\ \A r1 \in MemberRecords(rows), r2 \in MemberRecords(rows) :
              r1.cost_paid = r2.cost_paid
        /\ \A c \in CompanyRecords(rows), r \in MemberRecords(rows) :
              c.cost_paid >= r.cost_paid

\* C32 witness: a settlement was split with a remainder, which the company's
\* Record holds.
C32_Witness ==
    /\ SettleSucceeded
    /\ LET st == Settlement(reply.id)
           rows == SettlementRecords(reply.id)
       IN /\ st.cost_amount % (Len(st.actual_members) + 1) # 0
          /\ \E c \in CompanyRecords(rows), r \in MemberRecords(rows) :
                c.cost_paid > r.cost_paid
    /\ \E pr \in projects : pr.total_fixed_cost % 2 = 1

\* the Records a party holds among rows
RecordsOf(party, rows) == {r \in rows : r.member_name = party}

\* C33: in every reachable state every member of a project's stored roster
\* and the company hold exactly one Record of the project, and nobody else
\* holds one.
C33_OneRecordPerRosterMember ==
    \A pr \in projects :
        LET rows == ProjectRecords(pr.project_id)
        IN /\ \A party \in Roster(pr.project_id) \cup {COMPANY_NAME} :
                 Cardinality(RecordsOf(party, rows)) = 1
           /\ \A r \in rows :
                 r.member_name \in Roster(pr.project_id) \cup {COMPANY_NAME}

\* C33 witness: a member of a project was deleted; the project keeps a roster
\* and its Records no longer add up to its total.
C33_Witness ==
    /\ reply.op = "delete_member" /\ reply.kind = "ok"
    /\ \E pr \in projects :
          /\ Roster(pr.project_id) # {}
          /\ SumCost(ProjectRecords(pr.project_id)) < pr.total_fixed_cost

\* C34: every stored settlement has at most one Record for each party, and as
\* many Records as its roster has distinct members, plus one for the company.
C34_OneRecordPerSettlementParty ==
    \A st \in monthly_settlements :
        LET rows == SettlementRecords(st.id)
        IN /\ \A party \in AllNames : Cardinality(RecordsOf(party, rows)) <= 1
           /\ Cardinality(rows) = Cardinality(Range(st.actual_members)) + 1

\* C35: settle commands for one item and one month number given on processing
\* dates of one calendar year resolve to one settlement_date, so the later
\* command replaces the earlier settlement: no two settlements are stored for
\* the same item and the same month number. (All processing dates are days of
\* one calendar year.)
C35_OneSettlementPerItemMonth ==
    /\ \A i, j \in 1..Len(ProcessingDates) :
          ProcessingDates[i].y = ProcessingDates[j].y
    /\ \A s1, s2 \in monthly_settlements :
          (s1.item_name = s2.item_name
           /\ s1.settlement_date.m = s2.settlement_date.m) => s1 = s2

\* the sum of the fixed costs of a set of history entries
RECURSIVE SumFixed(_)
SumFixed(fs) ==
    IF fs = {} THEN 0
    ELSE LET f == CHOOSE x \in fs : TRUE
         IN f.C_fixed + SumFixed(fs \ {f})

\* C36: the amount a settle command deducts is the total of the fixed costs
\* of the item that went into the totals of the stored linked-mode projects
\* of the settled month when they were recorded, whatever commands came
\* between.
C36_DeductsWhatWasAdded ==
    SettleSucceeded =>
        LET st == Settlement(reply.id)
        IN reply.deducted =
              SumFixed({f \in fixed_added :
                          /\ f.item_name = st.item_name
                          /\ Project(f.project_id).record_date.m
                                = st.settlement_date.m})

====
